---------------------------- MODULE Spec2Model ----------------------------
(***************************************************************************)
(* Youth-policy retrieval and answer synthesis (sokcho-kim/cg_youth_poc).  *)
(*                                                                         *)
(* The model covers the two page parsers (scripts/detail_parser.py and     *)
(* scripts/crawl_youth_jobs_2.py) and the crawl driver of the latter, the  *)
(* two index builders                                                      *)
(* (rag/build_vectorstore.py and scripts/build_vectorstore.py), the three  *)
(* query front ends (rag/query_rag.py, api/main.py,                        *)
(* web_search/query_duckduckgo.py) and the stores they share: the ChromaDB *)
(* collection "seoul_youth_policies" under ./chroma_db and the LangChain   *)
(* Chroma collection persisted under "vectorstore".                        *)
(*                                                                         *)
(* A text is a sequence of atoms (TLA+ strings); "" is the empty sequence  *)
(* and concatenation is \o.  A Python dict is a function from key strings  *)
(* to values, d.get(k, default) is Get(d, k, default).  A call that can    *)
(* raise returns a record [raised, exc, value].                            *)
(***************************************************************************)
EXTENDS Integers, Sequences, FiniteSets, TLC

\* Bounds of the model.
MaxPolicies == 2    \* policies in one corpus under data/processed
MaxBuilds == 2      \* runs of each index builder
MaxK == 2           \* the largest k / max_results a request asks for
MaxTables == 2      \* form tables on one detail page
MaxRows == 2        \* rows in one form table

--------------------------------------------------------------------------
\* Texts and dicts

EmptyText == <<>>

Get(d, k, default) == IF k \in DOMAIN d THEN d[k] ELSE default

Min(a, b) == IF a < b THEN a ELSE b

Abs(a) == IF a < 0 THEN 0 - a ELSE a

Digits == <<"0", "1", "2", "3", "4", "5", "6", "7", "8", "9">>

\* str(n) for a natural number n, as a text of digit atoms
RECURSIVE Str(_)
Str(n) == IF n < 10 THEN <<Digits[n + 1]>>
          ELSE Str(n \div 10) \o <<Digits[(n % 10) + 1]>>

\* sep.join(parts) for a sequence of texts
RECURSIVE Join(_, _)
Join(sep, parts) ==
    IF parts = <<>> THEN EmptyText
    ELSE IF Len(parts) = 1 THEN parts[1]
    ELSE parts[1] \o sep \o Join(sep, Tail(parts))

NL == <<"\n">>

\* text.split(sep): the segments between the occurrences of the atom sep
RECURSIVE Split(_, _)
Split(text, sep) ==
    IF \A i \in DOMAIN text : text[i] # sep THEN <<text>>
    ELSE LET p == CHOOSE i \in DOMAIN text :
                      text[i] = sep /\ \A j \in 1..(i - 1) : text[j] # sep
         IN <<SubSeq(text, 1, p - 1)>>
            \o Split(SubSeq(text, p + 1, Len(text)), sep)

\* text[:n]
Slice(text, n) == SubSeq(text, 1, Min(n, Len(text)))

\* f"{x:.3f}" and f"{x:.1%}" of a whole-valued score
Fixed3(x) == (IF x < 0 THEN <<"-">> ELSE <<>>) \o Str(Abs(x)) \o <<".000">>

Percent1(x) ==
    (IF x < 0 THEN <<"-">> ELSE <<>>) \o Str(Abs(x) * 100) \o <<".0%">>

--------------------------------------------------------------------------
\* The policy files under data/processed: two corpora, "old" and "new"

CorpusTags == {"old", "new"}

\* One policy JSON as detail_parser.parse_detail writes it: title, plcyBizId
\* and page_url always, the labelled fields only when the page had the label.
Policy(tag, i) ==
    LET base == [title |-> <<tag, "-policy-">> \o Str(i),
                 plcyBizId |-> <<"R", tag>> \o Str(i),
                 page_url |-> <<"view.do?plcyBizId=R", tag>> \o Str(i),
                 content |-> [j \in 1..i |-> "support"],
                 agency |-> <<"seoul">>]
        full == [title |-> <<tag, "-policy-">> \o Str(i),
                 plcyBizId |-> <<"R", tag>> \o Str(i),
                 page_url |-> <<"view.do?plcyBizId=R", tag>> \o Str(i),
                 content |-> [j \in 1..i |-> "support"],
                 agency |-> <<"seoul">>,
                 age_range |-> <<"19-39">>,
                 apply_start |-> <<"2024-01-01">>,
                 apply_end |-> EmptyText,
                 application_site |-> <<"https:", "/", "/", "youth.seoul.go.kr">>]
    IN IF i % 2 = 1 THEN base ELSE full

Corpus(tag) == [i \in 1..MaxPolicies |-> Policy(tag, i)]

--------------------------------------------------------------------------
\* Embedding capability and nearest-neighbour query

\* model.encode(text): deterministic for identical input
Encode(text) == Len(text)

Distance(qe, de) == Abs(qe - de)

\* s is sorted by ascending distance; x goes after every nearer element and
\* before every element at the same or a larger distance
InsertByDistance(x, s, qe) ==
    LET n == Cardinality({i \in DOMAIN s :
                 Distance(qe, s[i].embedding) < Distance(qe, x.embedding)})
    IN SubSeq(s, 1, n) \o <<x>> \o SubSeq(s, n + 1, Len(s))

\* the stored documents by ascending distance, ties in insertion order
RECURSIVE NearestFirst(_, _)
NearestFirst(docs, qe) ==
    IF docs = <<>> THEN <<>>
    ELSE InsertByDistance(Head(docs), NearestFirst(Tail(docs), qe), qe)

\* collection.query(query_embeddings, n_results=k): validation rejects
\* n_results < 1; index_error is the index failing while it executes
IndexQuery(docs, qe, k, index_error) ==
    IF k < 1 \/ index_error
    THEN [raised |-> TRUE, exc |-> "IndexError", value |-> <<>>]
    ELSE LET sorted == NearestFirst(docs, qe)
         IN [raised |-> FALSE, exc |-> "",
             value |-> [i \in 1..Min(k, Len(sorted)) |->
                          [id |-> sorted[i].id,
                           distance |-> Distance(qe, sorted[i].embedding),
                           metadata |-> sorted[i].metadata,
                           document |-> sorted[i].document]]]


--------------------------------------------------------------------------
\* rag/build_vectorstore.py: PolicyVectorStore

\* uuid.uuid4(): a fresh id; the builder, the collection generation (or
\* run) and the position make it unique in the model
Uuid(builder, run, i) == <<builder>> \o Str(run) \o <<"-">> \o Str(i)

\* prepare_documents: one document per policy, none skipped; every
\* metadata key is written even when its value is ''
prepare_documents(policies, run) ==
    [n \in 1..Len(policies) |->
        LET policy == policies[n]
            title == Get(policy, "title", EmptyText)
            description == Get(policy, "description", EmptyText)
            content == Get(policy, "content", EmptyText)
        IN [id |-> Uuid("rag", run, n),
            text |-> <<"title: ">> \o title \o <<"\n", "description: ">>
                     \o description \o <<"\n", "content: ">> \o content,
            metadata |-> [title |-> title,
                          category |-> Get(policy, "category", EmptyText),
                          url |-> Get(policy, "url", EmptyText),
                          collected_at |-> Get(policy, "collected_at", EmptyText),
                          original_index |-> n - 1]]]

\* create_embeddings: model.encode over the document texts, order kept
create_embeddings(documents) ==
    [n \in 1..Len(documents) |-> Encode(documents[n].text)]

\* build_index: one collection.add of all ids, texts, metadatas, embeddings
build_index(stored, documents, embeddings) ==
    stored \o [n \in 1..Len(documents) |->
                  [id |-> documents[n].id,
                   embedding |-> embeddings[n],
                   document |-> documents[n].text,
                   metadata |-> documents[n].metadata]]

\* the rows with the score clamped into [0, 1]
SearchRowsClamped(hits) ==
    [i \in 1..Len(hits) |->
        [rank |-> i,
         score |-> IF 1 - hits[i].distance < 0 THEN 0
                   ELSE 1 - hits[i].distance,
         metadata |-> hits[i].metadata,
         content |-> hits[i].document]]

\* the rank / score / metadata / content rows both search methods build
\* from a query result
SearchRows(hits) ==
    [i \in 1..Len(hits) |->
        [rank |-> i,
         score |-> 1 - hits[i].distance,
         metadata |-> hits[i].metadata,
         content |-> hits[i].document]]

\* PolicyVectorStore.search: the whole body is inside try/except
PolicyVectorStore_search(docs, query, k, index_error) ==
    LET results == IndexQuery(docs, Encode(query), k, index_error)
    IN IF results.raised
       THEN [raised |-> FALSE, exc |-> "", value |-> <<>>]
       ELSE [raised |-> FALSE, exc |-> "", value |-> SearchRows(results.value)]

--------------------------------------------------------------------------
\* scripts/build_vectorstore.py: PolicyVectorizer

Truthy(v) == v # EmptyText

Whitespace == {" ", "\n", "\t"}

\* text.strip() == ''
IsBlank(text) == \A i \in DOMAIN text : text[i] \in Whitespace

\* the label of each text part, in the order create_policy_text appends them
TextParts ==
    << <<"title", "title: ">>, <<"introduction", "introduction: ">>,
       <<"content", "content: ">>, <<"policy_type", "policy_type: ">>,
       <<"agency", "agency: ">>, <<"age_range", "age: ">>,
       <<"education", "education: ">>,
       <<"employment_status", "employment: ">>,
       <<"apply_period", "apply period: ">>,
       <<"support_scale", "support scale: ">> >>

\* create_policy_text: a part per truthy field; the apply period needs both
\* apply_start and apply_end
create_policy_text(policy) ==
    LET present(key) ==
            IF key = "apply_period"
            THEN Truthy(Get(policy, "apply_start", EmptyText))
                 /\ Truthy(Get(policy, "apply_end", EmptyText))
            ELSE Truthy(Get(policy, key, EmptyText))
        part(key, label) ==
            IF key = "apply_period"
            THEN <<label>> \o policy["apply_start"] \o <<" ~ ">>
                 \o policy["apply_end"]
            ELSE <<label>> \o policy[key]
        kept == SelectSeq(TextParts, LAMBDA p : present(p[1]))
    IN Join(NL, [n \in 1..Len(kept) |-> part(kept[n][1], kept[n][2])])

\* metadata key -> policy key
MetadataKeys ==
    [policy_id |-> "plcyBizId", title |-> "title",
     policy_type |-> "policy_type", agency |-> "agency",
     age_range |-> "age_range", education |-> "education",
     employment_status |-> "employment_status",
     apply_start |-> "apply_start", apply_end |-> "apply_end",
     support_scale |-> "support_scale", page_url |-> "page_url",
     application_site |-> "application_site"]

\* create_metadata: the twelve keys, then the falsy ones removed
create_metadata(policy) ==
    LET metadata == [k \in DOMAIN MetadataKeys |->
                        Get(policy, MetadataKeys[k], EmptyText)]
    IN [k \in {key \in DOMAIN metadata : Truthy(metadata[key])} |->
           metadata[k]]

\* a documents loop that keeps the policies whose text is blank
DocumentsUnfiltered(policies) ==
    [n \in 1..Len(policies) |->
        [page_content |-> create_policy_text(policies[n]),
         metadata |-> create_metadata(policies[n])]]

\* the documents loop of vectorize_policies: blank texts are skipped
Documents(policies) ==
    LET texts == [n \in 1..Len(policies) |-> create_policy_text(policies[n])]
        kept == SelectSeq([n \in 1..Len(policies) |-> n],
                          LAMBDA n : ~IsBlank(texts[n]))
    IN [j \in 1..Len(kept) |->
           [page_content |-> texts[kept[j]],
            metadata |-> create_metadata(policies[kept[j]])]]

\* vectorize_policies: Chroma.from_documents opens the collection of
\* persist_directory (get-or-create: what is stored stays) and adds every
\* document under a new uuid; nothing is deleted first
vectorize_policies(stored, policies, run) ==
    LET documents == Documents(policies)
    IN stored \o [j \in 1..Len(documents) |->
                     [id |-> Uuid("lc", run, j),
                      embedding |-> Encode(documents[j].page_content),
                      document |-> documents[j].page_content,
                      metadata |-> documents[j].metadata]]


--------------------------------------------------------------------------
\* The detail pages the crawlers parse.  A Korean text is spelled one atom
\* per character (a romanised syllable), so that Len is its length and
\* "pattern in label" is containment of a run of atoms.

Nbsp == "NBSP"

\* the characters str.strip() removes
StripChars == Whitespace \cup {Nbsp}

\* text.strip()
RECURSIVE Strip(_)
Strip(text) ==
    IF text = <<>> THEN text
    ELSE IF Head(text) \in StripChars THEN Strip(Tail(text))
    ELSE IF text[Len(text)] \in StripChars
    THEN Strip(SubSeq(text, 1, Len(text) - 1))
    ELSE text

\* text.replace("\xa0", " ")
ReplaceNbsp(text) ==
    [i \in DOMAIN text |-> IF text[i] = Nbsp THEN " " ELSE text[i]]

\* pattern in text
Contains(text, pattern) ==
    \E i \in 0..(Len(text) - Len(pattern)) :
        SubSeq(text, i + 1, i + Len(pattern)) = pattern

\* d[k] = v
Put(d, k, v) == [x \in DOMAIN d \cup {k} |-> IF x = k THEN v ELSE d[x]]

\* section markers of detail_parser.parse_detail
SecOverview == <<"sa", "eop", "gae", "yo">>
SecEligibility == <<"sin", "cheong", "ja", "gyeok">>
SecMethod == <<"sin", "cheong", "bang", "beop">>
SecOther == <<"gi", "ta">>

\* label patterns
LblPeriod == <<"sa", "eop", "sin", "cheong", "gi", "gan">>
LblOperation == <<"sa", "eop", "un", "yeong", "gi", "gan">>
LblContent == <<"ji", "won", " ", "nae", "yong">>
LblAge == <<"yeon", "ryeong">>
LblSpecialized == <<"teuk", "hwa", "bun", "ya", " ", "yo", "geon">>
LblApplySite == <<"sin", "cheong", " ", "sa", "i", "teu">>

\* The label table of each section, in the order of the elif chain: pattern,
\* key written, and how the value is taken ("value": the cell text,
\* "period": the split application period, "site": the href of the link)
LabelTables ==
    [overview |->
        << [pattern |-> <<"jeong", "chaek", " ", "yu", "hyeong">>,
            key |-> "policy_type", kind |-> "value"],
           [pattern |-> <<"ju", "gwan", " ", "gi", "gwan">>,
            key |-> "agency", kind |-> "value"],
           [pattern |-> <<"jeong", "chaek", " ", "so", "gae">>,
            key |-> "introduction", kind |-> "value"],
           [pattern |-> LblContent, key |-> "content", kind |-> "value"],
           [pattern |-> LblOperation, key |-> "operation_period",
            kind |-> "value"],
           [pattern |-> LblPeriod, key |-> "apply_start", kind |-> "period"],
           [pattern |-> <<"ji", "won", "gyu", "mo">>,
            key |-> "support_scale", kind |-> "value"],
           [pattern |-> <<"gwan", "ryeon", " ", "sa", "i", "teu">>,
            key |-> "related_site", kind |-> "site"] >>,
     eligibility |->
        << [pattern |-> LblAge, key |-> "age_range", kind |-> "value"],
           [pattern |-> <<"hak", "ryeok">>, key |-> "education",
            kind |-> "value"],
           [pattern |-> <<"jeon", "gong", "yo", "geon">>,
            key |-> "major_requirement", kind |-> "value"],
           [pattern |-> <<"chwi", "eop", "sang", "tae">>,
            key |-> "employment_status", kind |-> "value"],
           [pattern |-> LblSpecialized, key |-> "specialized_field",
            kind |-> "value"],
           [pattern |-> <<"chu", "ga", "dan", "seo", " ", "sa", "hang">>,
            key |-> "additional_requirements", kind |-> "value"],
           [pattern |-> <<"cham", "yeo", "je", "han", " ", "dae", "sang">>,
            key |-> "excluded_targets", kind |-> "value"] >>,
     method |->
        << [pattern |-> <<"sin", "cheong", "jeol", "cha">>,
            key |-> "application_procedure", kind |-> "value"],
           [pattern |-> <<"sim", "sa", " ", "mit", " ", "bal", "pyo">>,
            key |-> "evaluation_announcement", kind |-> "value"],
           [pattern |-> <<"je", "chul", "seo", "ryu">>,
            key |-> "required_documents", kind |-> "value"],
           [pattern |-> LblApplySite, key |-> "application_site",
            kind |-> "site"] >>,
     other |->
        << [pattern |-> <<"gi", "ta", "sa", "hang">>,
            key |-> "other_matters", kind |-> "value"],
           [pattern |-> <<"un", "yeong", "gi", "gwan">>,
            key |-> "operating_agency", kind |-> "value"],
           [pattern |-> <<"cham", "go", " ", "sa", "i", "teu", " ", "I">>,
            key |-> "reference_site_1", kind |-> "site"],
           [pattern |-> <<"cham", "go", " ", "sa", "i", "teu", " ", "II">>,
            key |-> "reference_site_2", kind |-> "site"] >>]

\* the sections in the order of the outer elif chain
SectionChain ==
    << <<SecOverview, "overview">>, <<SecEligibility, "eligibility">>,
       <<SecMethod, "method">>, <<SecOther, "other">> >>

\* One cell pair of a page: the stripped label, the cell text and the href
\* of the cell's first link ("none" without a link or without href)
NoHref == <<"none">>

\* value.split("~") with every segment stripped
PeriodParts(value) ==
    LET parts == Split(value, "~")
    IN [n \in DOMAIN parts |-> Strip(parts[n])]

\* detail_parser.parse_detail, the first table entry whose pattern is in
\* the label (0: none)
FirstMatch(table, label) ==
    IF \E n \in DOMAIN table : Contains(label, table[n].pattern)
    THEN CHOOSE n \in DOMAIN table :
            /\ Contains(label, table[n].pattern)
            /\ \A m \in 1..(n - 1) : ~Contains(label, table[m].pattern)
    ELSE 0

\* the section whose branch the outer chain takes for a table title
SectionOf(table_title) ==
    IF \E n \in DOMAIN SectionChain : Contains(table_title, SectionChain[n][1])
    THEN SectionChain[CHOOSE n \in DOMAIN SectionChain :
            /\ Contains(table_title, SectionChain[n][1])
            /\ \A m \in 1..(n - 1) :
                  ~Contains(table_title, SectionChain[m][1])][2]
    ELSE "none"

\* the body of the innermost loop of detail_parser.parse_detail for one
\* th / td pair
ApplyPair(data, table_title, th, td) ==
    LET label == Strip(th)
        value == ReplaceNbsp(Strip(td.text))
        section == SectionOf(table_title)
        table == IF section = "none" THEN <<>> ELSE LabelTables[section]
        n == FirstMatch(table, label)
    IN IF n = 0 THEN data
       ELSE IF table[n].kind = "value" THEN Put(data, table[n].key, value)
       ELSE IF table[n].kind = "site"
       THEN IF td.href # NoHref THEN Put(data, table[n].key, td.href)
            ELSE data
       ELSE IF Contains(value, <<"~">>)
       THEN LET parts == PeriodParts(value)
            IN Put(Put(data, "apply_start", parts[1]),
                   "apply_end", parts[Len(parts)])
       ELSE Put(Put(data, "apply_start", value), "apply_end", EmptyText)

\* the th / td pairs of a row: header i with cell i while there is a cell
RECURSIVE ApplyRow(_, _, _, _)
ApplyRow(data, table_title, row, i) ==
    IF i > Len(row.th) THEN data
    ELSE ApplyRow(IF i <= Len(row.td)
                  THEN ApplyPair(data, table_title, row.th[i], row.td[i])
                  ELSE data,
                  table_title, row, i + 1)

RECURSIVE ApplyRows(_, _, _)
ApplyRows(data, table_title, rows) ==
    IF rows = <<>> THEN data
    ELSE ApplyRows(ApplyRow(data, table_title, Head(rows), 1), table_title,
                   Tail(rows))

RECURSIVE ApplyTables(_, _)
ApplyTables(data, tables) ==
    IF tables = <<>> THEN data
    ELSE ApplyTables(ApplyRows(data, Strip(Head(tables).title),
                               Head(tables).rows),
                     Tail(tables))

ViewUrl == <<"view.do?plcyBizId=">>

JobTag == <<"il", "ja", "ri">>

\* the dict both parsers start from
BaseRecord(page, policy_id) ==
    [title |-> IF page.has_title THEN Strip(page.title) ELSE EmptyText,
     plcyBizId |-> policy_id,
     tags |-> <<JobTag>>,
     page_url |-> ViewUrl \o policy_id]

\* detail_parser.parse_detail on a fetched page
parse_detail(page, policy_id) ==
    [raised |-> FALSE, exc |-> "",
     value |-> ApplyTables(BaseRecord(page, policy_id), page.tables)]

\* crawl_youth_jobs_2.parse_detail: its label chain ("or" is two entries
\* with one key)
Crawl2Table ==
    << [pattern |-> <<"sin", "cheong", "gi", "gan">>, key |-> "apply_start",
        kind |-> "period"],
       [pattern |-> <<"ji", "won", "dae", "sang">>, key |-> "target",
        kind |-> "value"],
       [pattern |-> <<"ju", "gwan", "gi", "gwan">>, key |-> "agency",
        kind |-> "value"],
       [pattern |-> <<"dam", "dang", "gi", "gwan">>, key |-> "agency",
        kind |-> "value"],
       [pattern |-> <<"cheom", "bu">>, key |-> "file_url", kind |-> "site"],
       [pattern |-> <<"ji", "won", "nae", "yong">>, key |-> "content",
        kind |-> "value"] >>

SiteRoot == <<"https://youth.seoul.go.kr">>

\* the loop body of crawl_youth_jobs_2.parse_detail for one row: the first
\* th and the first td; the two-target assignment of the split period
\* raises ValueError unless the split gives exactly two segments
Crawl2Row(acc, row) ==
    IF acc.raised \/ row.th = <<>> \/ row.td = <<>> THEN acc
    ELSE LET data == acc.value
             label == Strip(row.th[1])
             td == row.td[1]
             value == ReplaceNbsp(Strip(td.text))
             n == FirstMatch(Crawl2Table, label)
             ok(d) == [raised |-> FALSE, exc |-> "", value |-> d]
         IN IF n = 0 THEN acc
            ELSE IF Crawl2Table[n].kind = "value"
            THEN ok(Put(data, Crawl2Table[n].key, value))
            ELSE IF Crawl2Table[n].kind = "site"
            THEN IF td.href # NoHref
                 THEN ok(Put(data, "file_url", SiteRoot \o td.href))
                 ELSE acc
            ELSE IF Contains(value, <<"~">>)
            THEN LET parts == PeriodParts(value)
                 IN IF Len(parts) = 2
                    THEN ok(Put(Put(data, "apply_start", parts[1]),
                                "apply_end", parts[2]))
                    ELSE [raised |-> TRUE, exc |-> "ValueError",
                          value |-> <<>>]
            ELSE ok(Put(Put(data, "apply_start", value),
                        "apply_end", EmptyText))

RECURSIVE Crawl2Rows(_, _)
Crawl2Rows(acc, rows) ==
    IF rows = <<>> THEN acc
    ELSE Crawl2Rows(Crawl2Row(acc, Head(rows)), Tail(rows))

\* the tr elements of every table of the page, in document order
RECURSIVE AllRows(_)
AllRows(tables) ==
    IF tables = <<>> THEN <<>>
    ELSE Head(tables).rows \o AllRows(Tail(tables))

\* crawl_youth_jobs_2.parse_detail on a fetched page
crawl2_parse_detail(page, policy_id) ==
    Crawl2Rows([raised |-> FALSE, exc |-> "",
                value |-> BaseRecord(page, policy_id)],
               AllRows(page.tables))

--------------------------------------------------------------------------
\* scripts/crawl_youth_jobs_2.py: the crawl driver (__main__)

\* the categories in dict order, each with its site code
CATEGORIES ==
    << [name |-> "all", code |-> ""],
       [name |-> "jobs", code |-> "023010"],
       [name |-> "housing", code |-> "023020"],
       [name |-> "education", code |-> "023030"],
       [name |-> "welfare", code |-> "023040"],
       [name |-> "participation", code |-> "023050"],
       [name |-> "culture", code |-> "023060"] >>

MAX_PAGES_PER_CATEGORY == 100

\* the id list is also saved whenever its length is a multiple of this
IdListSaveEvery == 100

\* The site as a run meets it: pages list pages are non-empty, page p lists
\* the width ids from (p - 1) * stride + 1 on (an id is on two pages when
\* width > stride); the detail request fails for the ids in parse_fault;
\* write_fault is how the write of policy write_fault_id goes wrong while
\* the first category is crawled
WriteOutcomes == {"ok", "before", "partial"}

ListingShapes ==
    {[stride |-> 1, width |-> 1], [stride |-> 1, width |-> 2],
     [stride |-> 2, width |-> 2]}

\* short listings with every fault, and listings long enough to reach
\* IdListSaveEvery ids and MAX_PAGES_PER_CATEGORY pages
Sites ==
    [pages : {0, 1, 2, 3}, shape : ListingShapes,
     parse_fault : {{}, {1}, {2}}, write_fault_id : {2},
     write_fault : WriteOutcomes]
    \cup [pages : {50, 100, 101}, shape : ListingShapes,
          parse_fault : {{}}, write_fault_id : {2}, write_fault : {"ok"}]

\* get_policy_ids_selenium: the distinct ids of one list page, none past
\* the last page of the listing
get_policy_ids_selenium(site, category_code, page) ==
    IF page > site.pages THEN {}
    ELSE {(page - 1) * site.shape.stride + n : n \in 1..site.shape.width}

PolicyId(n) == <<"R">> \o Str(n)

\* the detail page of a policy as the site serves it while category cat
\* is crawled
DetailPage(n, cat) ==
    [has_title |-> TRUE,
     title |-> <<"policy ">> \o Str(n) \o <<" as of run part ">> \o Str(cat),
     tables |-> <<>>]

\* parse_detail(pid) of the driver: requests.get may raise, else the page
\* is parsed
driver_parse_detail(site, n, cat) ==
    IF n \in site.parse_fault
    THEN [raised |-> TRUE, exc |-> "ConnectionError", value |-> <<>>]
    ELSE crawl2_parse_detail(DetailPage(n, cat), PolicyId(n))

\* what a file holds when open() created it and json.dump failed
PartialFile == [partial |-> TRUE]

\* a save_json that writes over an existing file
save_json_overwriting(files, data, outcome) ==
    LET fname == data.plcyBizId
    IN IF outcome = "ok" THEN Put(files, fname, data)
       ELSE IF outcome = "partial" THEN Put(files, fname, PartialFile)
       ELSE files

\* save_json: an existing file is skipped; the write may fail before the
\* file exists or after open() created it; every failure is swallowed
save_json(files, data, outcome) ==
    LET fname == data.plcyBizId
    IN IF fname \in DOMAIN files THEN files
       ELSE IF outcome = "ok" THEN Put(files, fname, data)
       ELSE IF outcome = "partial" THEN Put(files, fname, PartialFile)
       ELSE files

\* how the write of policy n goes while category cat is crawled
WriteOutcome(site, n, cat) ==
    IF n = site.write_fault_id /\ cat = 1 THEN site.write_fault ELSE "ok"

\* the body of "for pid in ids" that retries an id whose fetch failed: the
\* id is recorded only after parse_detail returned
VisitIdRetrying(st, site, cat, n) ==
    IF n \in st.all_ids THEN st
    ELSE LET detail == driver_parse_detail(site, n, cat)
         IN [all_ids |-> IF detail.raised THEN st.all_ids
                         ELSE st.all_ids \cup {n},
             calls |-> Put(st.calls, n, Get(st.calls, n, 0) + 1),
             failed |-> IF detail.raised THEN st.failed \cup {n}
                        ELSE st.failed,
             files |-> IF detail.raised THEN st.files
                       ELSE save_json(st.files, detail.value,
                                      WriteOutcome(site, n, cat))]

\* the body of "for pid in ids": a new id is recorded, then fetched and
\* saved; an exception of either is printed and dropped
VisitId(st, site, cat, n) ==
    IF n \in st.all_ids THEN st
    ELSE LET detail == driver_parse_detail(site, n, cat)
         IN [all_ids |-> st.all_ids \cup {n},
             calls |-> Put(st.calls, n, Get(st.calls, n, 0) + 1),
             failed |-> IF detail.raised THEN st.failed \cup {n}
                        ELSE st.failed,
             files |-> IF detail.raised THEN st.files
                       ELSE save_json(st.files, detail.value,
                                      WriteOutcome(site, n, cat))]

\* "for pid in ids" over the ids of one page (they are distinct, and a
\* visit touches only its own id, so the order does not matter)
RECURSIVE VisitIds(_, _, _, _)
VisitIds(st, site, cat, ids) ==
    IF ids = {} THEN st
    ELSE LET n == CHOOSE x \in ids : \A y \in ids : x <= y
         IN VisitIds(VisitId(st, site, cat, n), site, cat, ids \ {n})

--------------------------------------------------------------------------
\* The generation capability (chat.completions.create): it returns a text
\* or fails; gen is the outcome this call meets

GenOutcomes == {"ok", "fail"}

GeneratedText(prompt) == <<"[generated] ">> \o prompt

\* outcome of a call, with the number of index queries and generation
\* calls it issued
Ret(v, iq, gc) ==
    [raised |-> FALSE, exc |-> "", value |-> v, index_queries |-> iq,
     gen_calls |-> gc]

Raise(e, iq, gc) ==
    [raised |-> TRUE, exc |-> e, value |-> <<>>, index_queries |-> iq,
     gen_calls |-> gc]

--------------------------------------------------------------------------
\* rag/query_rag.py: PolicyRAG

ContextMaxChars == 500

NoCollection == [exists |-> FALSE, gen |-> 0, docs |-> <<>>]

\* load_vectorstore: the handle of collection "seoul_youth_policies", or
\* None when ./chroma_db or the collection is missing
load_vectorstore(db) == IF db.exists THEN db.gen ELSE 0

\* search_policies: the None check raises outside the try; every error of
\* encode / collection.query is caught and gives []
search_policies(self, db, query, k, index_error) ==
    IF self.collection = 0
    THEN Raise("ValueError", 0, 0)
    ELSE LET stale == ~db.exists \/ db.gen # self.collection
             results == IndexQuery(db.docs, Encode(query), k,
                                   index_error \/ stale)
         IN IF results.raised
            THEN Ret(<<>>, 1, 0)
            ELSE Ret(SearchRows(results.value), 1, 0)

\* create_context: one block per result, joined by newlines; subscripting
\* a missing metadata key raises KeyError
create_context(search_results) ==
    LET block(result) ==
            <<"\n", "policy ">> \o Str(result.rank) \o <<": ">>
            \o result.metadata["title"]
            \o <<"\n", "category: ">> \o result.metadata["category"]
            \o <<"\n", "URL: ">> \o result.metadata["url"]
            \o <<"\n", "score: ">> \o Fixed3(result.score)
            \o <<"\n", "content: ">>
            \o Slice(result.content, ContextMaxChars) \o <<"...", "\n">>
    IN IF \E i \in DOMAIN search_results :
             ~({"title", "category", "url"}
                  \subseteq DOMAIN search_results[i].metadata)
       THEN Raise("KeyError", 0, 0)
       ELSE Ret(Join(NL, [i \in DOMAIN search_results |->
                             block(search_results[i])]), 0, 0)

NoApiKeyText == <<"OpenAI API key is not set.">>

GenerationErrorText == <<"error while generating the response: ", "APIError">>

\* generate_response_with_openai: one create call; its failure is returned
\* as the response text
generate_response_with_openai(self, query, context, gen) ==
    IF ~self.openai_client
    THEN Ret(NoApiKeyText, 0, 0)
    ELSE LET prompt == <<"question: ">> \o query
                       \o <<"\n", "policy information:", "\n">> \o context
         IN IF gen = "ok"
            THEN Ret(GeneratedText(prompt), 0, 1)
            ELSE Ret(GenerationErrorText, 0, 1)

NoPolicyFoundText == <<"no related policy was found.">>

\* generate_simple_response: the template answer of PolicyRAG
generate_simple_response(query, search_results) ==
    IF search_results = <<>>
    THEN Ret(NoPolicyFoundText, 0, 0)
    ELSE IF \E i \in DOMAIN search_results :
               ~({"title", "category", "url"}
                    \subseteq DOMAIN search_results[i].metadata)
    THEN Raise("KeyError", 0, 0)
    ELSE LET block(result) ==
                 <<"\n">> \o Str(result.rank) \o <<". ">>
                 \o result.metadata["title"]
                 \o <<"\n", "   - category: ">> \o result.metadata["category"]
                 \o <<"\n", "   - relevance: ">> \o Percent1(result.score)
                 \o <<"\n", "   - details: ">> \o result.metadata["url"]
                 \o <<"\n">>
             head == <<"'">> \o query \o <<"' related policies found:", "\n">>
             foot == <<"\n", "see the links above for details.">>
         IN Ret(Join(NL, <<head>>
                         \o [i \in DOMAIN search_results |->
                                block(search_results[i])]
                         \o <<foot>>), 0, 0)

\* the dict PolicyRAG.query returns
RagBundle(question, answer, results, context, used, error) ==
    [question |-> question, answer |-> answer, search_results |-> results,
     context |-> context, used_model |-> used, error |-> error]

\* PolicyRAG.query: search, context, then the OpenAI path when use_openai
\* and a client is set, else the template; any exception becomes a bundle
\* with an 'error' key
PolicyRAG_query(self, db, question, use_openai, k, index_error, gen) ==
    LET found == search_policies(self, db, question, k, index_error)
        context == create_context(found.value)
        answer == IF use_openai /\ self.openai_client
                  THEN generate_response_with_openai(self, question,
                                                     context.value, gen)
                  ELSE generate_simple_response(question, found.value)
        failed(e, iq, gc) ==
            Ret(RagBundle(question, <<"an error occurred: ", e>>, <<>>,
                          EmptyText, FALSE, e), iq, gc)
    IN IF found.raised THEN failed(found.exc, found.index_queries, 0)
       ELSE IF context.raised THEN failed(context.exc, found.index_queries, 0)
       ELSE IF answer.raised
       THEN failed(answer.exc, found.index_queries, answer.gen_calls)
       ELSE Ret(RagBundle(question, answer.value, found.value, context.value,
                          use_openai /\ self.openai_client, ""),
                found.index_queries, answer.gen_calls)


--------------------------------------------------------------------------
\* api/main.py

LlmContextMaxChars == 300

SummaryMaxChars == 200

SearchContentMaxChars == 500

SourceRelevanceScore == 95     \* 0.95, in hundredths

ConfidenceWithSources == 90    \* 0.9, in hundredths

\* vectorstore.similarity_search(query, k): Documents, nearest first
similarity_search(docs, query, k, index_error) ==
    LET results == IndexQuery(docs, Encode(query), k, index_error)
    IN IF results.raised
       THEN Raise(results.exc, 1, 0)
       ELSE Ret([i \in DOMAIN results.value |->
                    [page_content |-> results.value[i].document,
                     metadata |-> results.value[i].metadata]], 1, 0)

NoPolicySorryText == <<"sorry, no related policy was found.">>

\* the template with the age line written before the agency line
TemplateAnswerAgeFirst(query, context_docs) ==
    LET policy(doc) ==
            [title |-> Get(doc.metadata, "title", <<"no title">>),
             agency |-> Get(doc.metadata, "agency", EmptyText),
             age_range |-> Get(doc.metadata, "age_range", EmptyText),
             policy_type |-> Get(doc.metadata, "policy_type", EmptyText),
             apply_period |-> Get(doc.metadata, "apply_start", EmptyText)
                              \o <<" ~ ">>
                              \o Get(doc.metadata, "apply_end", EmptyText),
             application_site |->
                 Get(doc.metadata, "application_site", EmptyText),
             summary |-> IF Len(doc.page_content) > SummaryMaxChars
                         THEN Slice(doc.page_content, SummaryMaxChars)
                              \o <<"...">>
                         ELSE doc.page_content]
        lines(i, p) ==
            << <<"* ">> \o Str(i) \o <<". ">> \o p.title >>
            \o (IF Truthy(p.age_range)
                THEN << <<"   age: ">> \o p.age_range >> ELSE <<>>)
            \o (IF Truthy(p.agency)
                THEN << <<"   agency: ">> \o p.agency >> ELSE <<>>)
            \o (IF Truthy(p.apply_period) /\ p.apply_period # <<" ~ ">>
                THEN << <<"   apply period: ">> \o p.apply_period >>
                ELSE <<>>)
            \o (IF Truthy(p.application_site)
                THEN << <<"   application site: ">> \o p.application_site >>
                ELSE <<>>)
            \o << <<"   summary: ">> \o p.summary, EmptyText >>
        RECURSIVE blocks(_)
        blocks(i) == IF i > Len(context_docs) THEN <<>>
                     ELSE lines(i, policy(context_docs[i])) \o blocks(i + 1)
    IN Join(NL, << <<"'">> \o query \o <<"' related policies found:">>,
                   EmptyText >>
                \o blocks(1)
                \o << <<"for details visit each application site!">> >>)

\* the template part of generate_llm_answer (lines 137-170)
TemplateAnswer(query, context_docs) ==
    LET policy(doc) ==
            [title |-> Get(doc.metadata, "title", <<"no title">>),
             agency |-> Get(doc.metadata, "agency", EmptyText),
             age_range |-> Get(doc.metadata, "age_range", EmptyText),
             policy_type |-> Get(doc.metadata, "policy_type", EmptyText),
             apply_period |-> Get(doc.metadata, "apply_start", EmptyText)
                              \o <<" ~ ">>
                              \o Get(doc.metadata, "apply_end", EmptyText),
             application_site |->
                 Get(doc.metadata, "application_site", EmptyText),
             summary |-> IF Len(doc.page_content) > SummaryMaxChars
                         THEN Slice(doc.page_content, SummaryMaxChars)
                              \o <<"...">>
                         ELSE doc.page_content]
        lines(i, p) ==
            << <<"* ">> \o Str(i) \o <<". ">> \o p.title >>
            \o (IF Truthy(p.agency)
                THEN << <<"   agency: ">> \o p.agency >> ELSE <<>>)
            \o (IF Truthy(p.age_range)
                THEN << <<"   age: ">> \o p.age_range >> ELSE <<>>)
            \o (IF Truthy(p.apply_period) /\ p.apply_period # <<" ~ ">>
                THEN << <<"   apply period: ">> \o p.apply_period >>
                ELSE <<>>)
            \o (IF Truthy(p.application_site)
                THEN << <<"   application site: ">> \o p.application_site >>
                ELSE <<>>)
            \o << <<"   summary: ">> \o p.summary, EmptyText >>
        RECURSIVE blocks(_)
        blocks(i) == IF i > Len(context_docs) THEN <<>>
                     ELSE lines(i, policy(context_docs[i])) \o blocks(i + 1)
    IN Join(NL, << <<"'">> \o query \o <<"' related policies found:">>,
                   EmptyText >>
                \o blocks(1)
                \o << <<"for details visit each application site!">> >>)

\* generate_llm_answer: no documents -> the fixed sentence; with a client
\* one create call, whose failure falls through to the template
generate_llm_answer(query, context_docs, openai_client, gen) ==
    IF context_docs = <<>>
    THEN Ret(NoPolicySorryText, 0, 0)
    ELSE IF openai_client /\ gen = "ok"
    THEN LET block(i, doc) ==
                 <<"\n", "policy ">> \o Str(i) \o <<": ">>
                 \o Get(doc.metadata, "title", <<"no title">>)
                 \o <<"\n", "agency: ">>
                 \o Get(doc.metadata, "agency", EmptyText)
                 \o <<"\n", "age: ">>
                 \o Get(doc.metadata, "age_range", EmptyText)
                 \o <<"\n", "apply period: ">>
                 \o Get(doc.metadata, "apply_start", EmptyText) \o <<" ~ ">>
                 \o Get(doc.metadata, "apply_end", EmptyText)
                 \o <<"\n", "content: ">>
                 \o Slice(doc.page_content, LlmContextMaxChars) \o <<"...">>
                 \o <<"\n", "application site: ">>
                 \o Get(doc.metadata, "application_site", EmptyText)
                 \o <<"\n">>
             context == Join(NL, [i \in DOMAIN context_docs |->
                                     block(i, context_docs[i])])
         IN Ret(GeneratedText(<<"question: ">> \o query
                              \o <<"\n", "\n", "policy information:", "\n">>
                              \o context), 0, 1)
    ELSE Ret(TemplateAnswer(query, context_docs), 0,
             IF openai_client THEN 1 ELSE 0)

\* POST /search
api_search_policies(vectorstore, docs, query, k, index_error) ==
    IF ~vectorstore THEN Raise("HTTPException", 0, 0)
    ELSE LET results == similarity_search(docs, query, k, index_error)
             row(doc) ==
                 [title |-> Get(doc.metadata, "title", EmptyText),
                  policy_id |-> Get(doc.metadata, "policy_id", EmptyText),
                  policy_type |-> Get(doc.metadata, "policy_type", EmptyText),
                  agency |-> Get(doc.metadata, "agency", EmptyText),
                  age_range |-> Get(doc.metadata, "age_range", EmptyText),
                  education |-> Get(doc.metadata, "education", EmptyText),
                  employment_status |->
                      Get(doc.metadata, "employment_status", EmptyText),
                  apply_start |-> Get(doc.metadata, "apply_start", EmptyText),
                  apply_end |-> Get(doc.metadata, "apply_end", EmptyText),
                  support_scale |->
                      Get(doc.metadata, "support_scale", EmptyText),
                  page_url |-> Get(doc.metadata, "page_url", EmptyText),
                  application_site |->
                      Get(doc.metadata, "application_site", EmptyText),
                  content |->
                      IF Len(doc.page_content) > SearchContentMaxChars
                      THEN Slice(doc.page_content, SearchContentMaxChars)
                           \o <<"...">>
                      ELSE doc.page_content]
         IN IF results.raised
            THEN Raise("HTTPException", results.index_queries, 0)
            ELSE LET formatted == [i \in DOMAIN results.value |->
                                      row(results.value[i])]
                 IN Ret([query |-> query, results |-> formatted,
                         total_count |-> Len(formatted)],
                        results.index_queries, 0)

\* a confidence read off the first source's relevance score
ConfidenceFromScore(sources) ==
    IF sources # <<>> THEN sources[1].relevance_score ELSE 0

\* the confidence of an answer: one fixed value with sources, zero without
Confidence(sources) == IF sources # <<>> THEN ConfidenceWithSources ELSE 0

\* POST /answer
api_generate_answer(vectorstore, docs, client, query, k, index_error, gen) ==
    IF ~vectorstore THEN Raise("HTTPException", 0, 0)
    ELSE LET found == similarity_search(docs, query, k, index_error)
             answer == generate_llm_answer(query, found.value, client, gen)
             source(doc) ==
                 [title |-> Get(doc.metadata, "title", EmptyText),
                  policy_id |-> Get(doc.metadata, "policy_id", EmptyText),
                  agency |-> Get(doc.metadata, "agency", EmptyText),
                  page_url |-> Get(doc.metadata, "page_url", EmptyText),
                  application_site |->
                      Get(doc.metadata, "application_site", EmptyText),
                  relevance_score |-> SourceRelevanceScore]
         IN IF found.raised
            THEN Raise("HTTPException", found.index_queries, 0)
            ELSE LET sources == [i \in DOMAIN found.value |->
                                    source(found.value[i])]
                 IN Ret([query |-> query, answer |-> answer.value,
                         sources |-> sources,
                         confidence |-> Confidence(sources)],
                        found.index_queries, answer.gen_calls)


--------------------------------------------------------------------------
\* web_search/query_duckduckgo.py: WebSearchRAG

WebSnippetMaxChars == 200

\* what ddgs.text can return for one hit: with the key 'link' the code
\* reads (a full URL, or one with no '/'), or with 'href' instead
WebHit(n) ==
    IF n = 1 THEN [title |-> <<"youth job news">>,
                   link |-> <<"https:", "/", "/", "news.seoul.go.kr", "/",
                              "a">>,
                   body |-> <<"job", "support">>]
    ELSE IF n = 2 THEN [title |-> <<"housing">>,
                        href |-> <<"https:", "/", "/", "youth.seoul.go.kr">>,
                        body |-> <<"housing", "support">>]
    ELSE [title |-> <<"broken link">>, link |-> <<"seoul.go.kr">>,
          body |-> EmptyText]

WebHitKinds == 1..3

\* search_web: every hit becomes title / link / snippet / source; any
\* exception (the search failing, link.split('/')[2] out of range) gives []
search_web(hits, web_error) ==
    LET link(n) == Get(hits[n], "link", EmptyText)
    IN IF web_error
          \/ \E n \in DOMAIN hits :
                Truthy(link(n)) /\ Len(Split(link(n), "/")) < 3
       THEN Ret(<<>>, 1, 0)
       ELSE Ret([n \in DOMAIN hits |->
                    [title |-> Get(hits[n], "title", EmptyText),
                     link |-> link(n),
                     snippet |-> Get(hits[n], "body", EmptyText),
                     source |-> IF Truthy(link(n))
                                THEN Split(link(n), "/")[3]
                                ELSE EmptyText]], 1, 0)

NoWebResultsText == <<"there are no related web search results.">>

\* create_search_context: the fixed sentence for no results
create_search_context(search_results) ==
    IF search_results = <<>> THEN NoWebResultsText
    ELSE Join(NL, [i \in DOMAIN search_results |->
                      <<"\n", "search result ">> \o Str(i) \o <<":">>
                      \o <<"\n", "title: ">> \o search_results[i].title
                      \o <<"\n", "source: ">> \o search_results[i].source
                      \o <<"\n", "link: ">> \o search_results[i].link
                      \o <<"\n", "content: ">> \o search_results[i].snippet
                      \o <<"\n">>])

SummaryErrorText == <<"error while generating the summary: ", "APIError">>

\* summarize_with_gpt: one create call; its failure is returned as the text
summarize_with_gpt(self, query, context, gen) ==
    IF ~self.openai_client
    THEN Ret(NoApiKeyText, 0, 0)
    ELSE LET prompt == <<"question: ">> \o query
                       \o <<"\n", "web search results:", "\n">> \o context
         IN IF gen = "ok"
            THEN Ret(GeneratedText(prompt), 0, 1)
            ELSE Ret(SummaryErrorText, 0, 1)

\* create_simple_summary: the template answer of WebSearchRAG
create_simple_summary(query, search_results) ==
    IF search_results = <<>>
    THEN <<"'">> \o query \o <<"' no recent information was found.">>
    ELSE Join(NL,
              << <<"'">> \o query \o <<"' recent web results:", "\n">> >>
              \o [i \in DOMAIN search_results |->
                     <<"\n">> \o Str(i) \o <<". ">>
                     \o search_results[i].title
                     \o <<"\n", "   source: ">> \o search_results[i].source
                     \o <<"\n", "   content: ">>
                     \o Slice(search_results[i].snippet, WebSnippetMaxChars)
                     \o <<"...">>
                     \o <<"\n", "   link: ">> \o search_results[i].link
                     \o <<"\n">>]
              \o << <<"\n", "see the links above for details.">> >>)

\* WebSearchRAG.query
WebSearchRAG_query(self, question, use_gpt, hits, web_error, gen) ==
    LET found == search_web(hits, web_error)
        context == create_search_context(found.value)
        answer == IF use_gpt /\ self.openai_client
                  THEN summarize_with_gpt(self, question, context, gen)
                  ELSE Ret(create_simple_summary(question, found.value), 0, 0)
    IN Ret(RagBundle(question, answer.value, found.value, context,
                     use_gpt /\ self.openai_client, ""),
           found.index_queries, answer.gen_calls)


--------------------------------------------------------------------------
\* State

VARIABLES
    chroma_db,        \* collection "seoul_youth_policies" under ./chroma_db
    vectorstore_dir,  \* documents of the collection persisted in "vectorstore"
    pvs,              \* the run of rag/build_vectorstore.py main()
    rag_runs,         \* corpus of each completed run of that builder
    vec_runs,         \* corpus of each completed scripts/build_vectorstore run
    rag,              \* the PolicyRAG instance
    api,              \* the globals of api/main.py
    web,              \* the WebSearchRAG instance
    crawl,            \* the run of scripts/crawl_youth_jobs_2.py
    last              \* the latest call (front end, parser, renderer) and
                      \* what it gave

vars == <<chroma_db, vectorstore_dir, pvs, rag_runs, vec_runs, rag, api, web,
          crawl, last>>

RunTags == {"none"} \cup CorpusTags

\* the policies load_policies / load_policy_data find for a run: none, or
\* one of the corpora
PoliciesOf(tag) == IF tag = "none" THEN <<>> ELSE Corpus(tag)

Questions ==
    {EmptyText, <<"youth", "job">>,
     <<"which", "policy", "helps", "a", "young", "job", "seeker", "in",
       "seoul", "this", "year">>}

Ks == 0..MaxK

\* the crawler has not been started
NoCrawl == [pc |-> "off"]

NoCall ==
    [op |-> "none", question |-> EmptyText, k |-> 0, use_model |-> FALSE,
     raised |-> FALSE, exc |-> "", answer |-> EmptyText, matches |-> <<>>,
     context |-> EmptyText, used_model |-> FALSE, error |-> "",
     confidence |-> 0, index_queries |-> 0, gen_calls |-> 0,
     index_state |-> "", index_error |-> FALSE, gen |-> "",
     client |-> FALSE]

Init ==
    /\ chroma_db = NoCollection
    /\ vectorstore_dir = <<>>
    /\ pvs = [pc |-> "idle", tag |-> "none", run |-> 0]
    /\ rag_runs = <<>>
    /\ vec_runs = <<>>
    /\ rag = [constructed |-> FALSE, collection |-> 0, openai_client |-> FALSE]
    /\ api = [vectorstore |-> FALSE, openai_client |-> FALSE]
    /\ web = [constructed |-> FALSE, openai_client |-> FALSE]
    /\ crawl = NoCrawl
    /\ last = NoCall

--------------------------------------------------------------------------
\* rag/build_vectorstore.py main(), step by step

\* PolicyVectorStore.__init__, first half: delete_collection inside
\* try / bare except; delete_ok = FALSE is the delete failing on an
\* existing collection
PVS_init_delete(tag, delete_ok) ==
    /\ pvs.pc = "idle"
    /\ pvs.run < MaxBuilds
    /\ pvs' = [pc |-> "deleted", tag |-> tag, run |-> pvs.run + 1]
    /\ chroma_db' = IF chroma_db.exists /\ delete_ok
                    THEN [NoCollection EXCEPT !.gen = chroma_db.gen]
                    ELSE chroma_db
    /\ UNCHANGED <<vectorstore_dir, rag_runs, vec_runs, rag, api, web, crawl,
                   last>>

\* a constructor that opens the collection when the name is still taken
PVS_init_get_or_create ==
    /\ pvs.pc = "deleted"
    /\ pvs' = [pvs EXCEPT !.pc = "created"]
    /\ chroma_db' = IF chroma_db.exists THEN chroma_db
                    ELSE [exists |-> TRUE, gen |-> chroma_db.gen + 1,
                          docs |-> <<>>]
    /\ UNCHANGED <<vectorstore_dir, rag_runs, vec_runs, rag, api, web, crawl,
                   last>>

\* PolicyVectorStore.__init__, second half: create_collection raises when
\* the name is still taken, and the run ends there
PVS_init_create ==
    /\ pvs.pc = "deleted"
    /\ IF chroma_db.exists
       THEN /\ pvs' = [pvs EXCEPT !.pc = "idle"]
            /\ UNCHANGED chroma_db
       ELSE /\ pvs' = [pvs EXCEPT !.pc = "created"]
            /\ chroma_db' = [exists |-> TRUE, gen |-> chroma_db.gen + 1,
                             docs |-> <<>>]
    /\ UNCHANGED <<vectorstore_dir, rag_runs, vec_runs, rag, api, web, crawl,
                   last>>

\* main() after the constructor: load_policies, return when there are none,
\* else prepare_documents, create_embeddings, build_index
PVS_main_build ==
    /\ pvs.pc = "created"
    /\ LET policies == PoliciesOf(pvs.tag)
           documents == prepare_documents(policies, chroma_db.gen)
       IN IF policies = <<>>
          THEN /\ pvs' = [pvs EXCEPT !.pc = "idle"]
               /\ UNCHANGED chroma_db
          ELSE /\ pvs' = [pvs EXCEPT !.pc = "built"]
               /\ chroma_db' =
                     [chroma_db EXCEPT
                         !.docs = build_index(@, documents,
                                              create_embeddings(documents))]
    /\ rag_runs' = Append(rag_runs, pvs.tag)
    /\ UNCHANGED <<vectorstore_dir, vec_runs, rag, api, web, crawl, last>>

\* the run ends after its test searches
PVS_exit ==
    /\ pvs.pc = "built"
    /\ pvs' = [pvs EXCEPT !.pc = "idle"]
    /\ UNCHANGED <<chroma_db, vectorstore_dir, rag_runs, vec_runs, rag, api,
                   web, crawl, last>>

\* the run fails between two steps (an exception in the constructor, in
\* load_policies, create_embeddings or collection.add, or the process dying)
PVS_crash ==
    /\ pvs.pc \in {"deleted", "created"}
    /\ pvs' = [pvs EXCEPT !.pc = "idle"]
    /\ UNCHANGED <<chroma_db, vectorstore_dir, rag_runs, vec_runs, rag, api,
                   web, crawl, last>>

\* scripts/build_vectorstore.py main(): return when no policy was loaded,
\* else vectorize_policies.  (A run that fails before the add leaves the
\* store as it was.)
scripts_main(tag) ==
    /\ Len(vec_runs) < MaxBuilds
    /\ vec_runs' = Append(vec_runs, tag)
    /\ vectorstore_dir' =
          IF PoliciesOf(tag) = <<>> THEN vectorstore_dir
          ELSE vectorize_policies(vectorstore_dir, PoliciesOf(tag),
                                  Len(vec_runs) + 1)
    /\ UNCHANGED <<chroma_db, pvs, rag_runs, rag, api, web, crawl, last>>


--------------------------------------------------------------------------
\* Calls of the front ends.  Each records in last what was asked, what the
\* caller got (a value or an exception) and what the call met on its way:
\* the state of the index it read, whether the index query failed and how
\* the generation call ended (only when such a call was issued).

IndexState(present, docs) ==
    IF ~present THEN "absent" ELSE IF docs = <<>> THEN "empty" ELSE "built"

Met(res, index_state, index_error, gen, client) ==
    [raised |-> res.raised, exc |-> res.exc,
     index_queries |-> res.index_queries, gen_calls |-> res.gen_calls,
     index_state |-> index_state,
     index_error |-> index_error /\ res.index_queries > 0,
     gen |-> IF res.gen_calls > 0 THEN gen ELSE "",
     client |-> client]

Asked(op, question, k, use_model) ==
    [op |-> op, question |-> question, k |-> k, use_model |-> use_model]

Got(answer, matches, context, used_model, error, confidence) ==
    [answer |-> answer, matches |-> matches, context |-> context,
     used_model |-> used_model, error |-> error, confidence |-> confidence]

Nothing == Got(EmptyText, <<>>, EmptyText, FALSE, "", 0)

\* the three parts as one record
Call(asked, got, met) ==
    [f \in DOMAIN asked \cup DOMAIN got \cup DOMAIN met |->
        IF f \in DOMAIN asked THEN asked[f]
        ELSE IF f \in DOMAIN got THEN got[f] ELSE met[f]]

\* PolicyRAG(...): load_vectorstore binds the collection found now
PolicyRAG_init(openai_api_key) ==
    /\ rag' = [constructed |-> TRUE,
               collection |-> load_vectorstore(chroma_db),
               openai_client |-> openai_api_key]
    /\ UNCHANGED <<chroma_db, vectorstore_dir, pvs, rag_runs, vec_runs, api,
                   web, crawl, last>>

RagIndexState ==
    IndexState(rag.collection # 0 /\ chroma_db.exists
                  /\ chroma_db.gen = rag.collection,
               chroma_db.docs)

\* a query that lets go of its collection handle once it has answered
PolicyRAG_query_call_releasing(question, use_openai, k, index_error, gen) ==
    /\ rag.constructed
    /\ LET res == PolicyRAG_query(rag, chroma_db, question, use_openai, k,
                                  index_error, gen)
           b == res.value
       IN last' = Call(Asked("PolicyRAG.query", question, k, use_openai),
                       Got(b.answer, b.search_results, b.context,
                           b.used_model, b.error, 0),
                       Met(res, RagIndexState, index_error, gen,
                           rag.openai_client))
    /\ rag' = [rag EXCEPT !.collection = 0]
    /\ UNCHANGED <<chroma_db, vectorstore_dir, pvs, rag_runs, vec_runs, api,
                   web, crawl>>

PolicyRAG_query_call(question, use_openai, k, index_error, gen) ==
    /\ rag.constructed
    /\ LET res == PolicyRAG_query(rag, chroma_db, question, use_openai, k,
                                  index_error, gen)
           b == res.value
       IN last' = Call(Asked("PolicyRAG.query", question, k, use_openai),
                       Got(b.answer, b.search_results, b.context,
                           b.used_model, b.error, 0),
                       Met(res, RagIndexState, index_error, gen,
                           rag.openai_client))
    /\ UNCHANGED <<chroma_db, vectorstore_dir, pvs, rag_runs, vec_runs, rag,
                   api, web, crawl>>

PolicyRAG_search_call(question, k, index_error) ==
    /\ rag.constructed
    /\ LET res == search_policies(rag, chroma_db, question, k, index_error)
       IN last' = Call(Asked("PolicyRAG.search_policies", question, k, FALSE),
                       [Nothing EXCEPT !.matches = res.value],
                       Met(res, RagIndexState, index_error, "",
                           rag.openai_client))
    /\ UNCHANGED <<chroma_db, vectorstore_dir, pvs, rag_runs, vec_runs, rag,
                   api, web, crawl>>

\* PolicyVectorStore.search on the builder's own collection
PVS_search_call(question, k, index_error) ==
    /\ pvs.pc \in {"created", "built"}
    /\ LET r == PolicyVectorStore_search(chroma_db.docs, question, k,
                                         index_error)
           res == Ret(r.value, 1, 0)
       IN last' = Call(Asked("PolicyVectorStore.search", question, k, FALSE),
                       [Nothing EXCEPT !.matches = res.value],
                       Met(res, IndexState(TRUE, chroma_db.docs),
                           index_error, "", FALSE))
    /\ UNCHANGED <<chroma_db, vectorstore_dir, pvs, rag_runs, vec_runs, rag,
                   api, web, crawl>>

\* startup_event -> load_vectorstore(): Chroma(persist_directory) opens the
\* collection, creating it when missing; a failure leaves the globals None
api_startup(openai_api_key, load_ok) ==
    /\ api' = IF load_ok
              THEN [vectorstore |-> TRUE, openai_client |-> openai_api_key]
              ELSE [vectorstore |-> FALSE, openai_client |-> FALSE]
    /\ UNCHANGED <<chroma_db, vectorstore_dir, pvs, rag_runs, vec_runs, rag,
                   web, crawl, last>>

api_search_call(question, k, index_error) ==
    /\ LET res == api_search_policies(api.vectorstore, vectorstore_dir,
                                      question, k, index_error)
       IN last' = Call(Asked("POST /search", question, k, FALSE),
                       IF res.raised THEN Nothing
                       ELSE [Nothing EXCEPT !.matches = res.value.results],
                       Met(res, IndexState(api.vectorstore, vectorstore_dir),
                           index_error, "", api.openai_client))
    /\ UNCHANGED <<chroma_db, vectorstore_dir, pvs, rag_runs, vec_runs, rag,
                   api, web, crawl>>

\* POST /answer has no use_model switch: the model path is taken whenever
\* a client is configured
api_answer_call(question, k, index_error, gen) ==
    /\ LET res == api_generate_answer(api.vectorstore, vectorstore_dir,
                                      api.openai_client, question, k,
                                      index_error, gen)
           b == res.value
       IN last' = Call(Asked("POST /answer", question, k, TRUE),
                       IF res.raised THEN Nothing
                       ELSE Got(b.answer, b.sources, EmptyText,
                                res.gen_calls > 0 /\ gen = "ok", "",
                                b.confidence),
                       Met(res, IndexState(api.vectorstore, vectorstore_dir),
                           index_error, gen, api.openai_client))
    /\ UNCHANGED <<chroma_db, vectorstore_dir, pvs, rag_runs, vec_runs, rag,
                   api, web, crawl>>

WebSearchRAG_init(openai_api_key) ==
    /\ web' = [constructed |-> TRUE, openai_client |-> openai_api_key]
    /\ UNCHANGED <<chroma_db, vectorstore_dir, pvs, rag_runs, vec_runs, rag,
                   api, crawl, last>>

\* the hit lists ddgs.text can return for max_results
WebHitLists(max_results) ==
    {<<>>} \cup {[n \in 1..len |-> WebHit(kind)] :
                    len \in 1..max_results, kind \in WebHitKinds}

WebSearchRAG_query_call(question, use_gpt, max_results, hits, e, gen) ==
    /\ web.constructed
    /\ LET res == WebSearchRAG_query(web, question, use_gpt, hits, e, gen)
           b == res.value
       IN last' = Call(Asked("WebSearchRAG.query", question, max_results,
                             use_gpt),
                       Got(b.answer, b.search_results, b.context,
                           b.used_model, b.error, 0),
                       Met(res, "web", e, gen, web.openai_client))
    /\ UNCHANGED <<chroma_db, vectorstore_dir, pvs, rag_runs, vec_runs, rag,
                   api, web, crawl>>

--------------------------------------------------------------------------
\* The offline build jobs, from empty stores

Next ==
    \/ \E tag \in RunTags, delete_ok \in BOOLEAN :
          PVS_init_delete(tag, delete_ok)
    \/ PVS_init_create
    \/ PVS_main_build
    \/ PVS_exit
    \/ PVS_crash
    \/ \E q \in Questions, k \in Ks, e \in BOOLEAN : PVS_search_call(q, k, e)
    \/ \E tag \in RunTags : scripts_main(tag)

Spec == Init /\ [][Next]_vars

\* the two offline builders alone, their runs interleaved
NextBuild ==
    \/ \E tag \in RunTags, delete_ok \in BOOLEAN :
          PVS_init_delete(tag, delete_ok)
    \/ PVS_init_create
    \/ PVS_main_build
    \/ PVS_exit
    \/ PVS_crash
    \/ \E tag \in RunTags : scripts_main(tag)

SpecBuild == Init /\ [][NextBuild]_vars

--------------------------------------------------------------------------
\* Serving.  The stores are read-only while a front end serves (rebuilds
\* are offline jobs), so each front end starts from a store the build jobs
\* can leave behind and from there only last and the handles change.

\* what rag/build_vectorstore.py can leave under ./chroma_db: nothing, or
\* the collection of its g-th run, empty or holding one corpus
BuiltChroma ==
    {[NoCollection EXCEPT !.gen = g] : g \in 0..(MaxBuilds - 1)}
    \cup {[exists |-> TRUE, gen |-> g, docs |-> <<>>] : g \in 1..MaxBuilds}
    \cup {[exists |-> TRUE, gen |-> g,
           docs |-> LET documents == prepare_documents(Corpus(tag), g)
                    IN build_index(<<>>, documents,
                                   create_embeddings(documents))] :
             g \in 1..MaxBuilds, tag \in CorpusTags}

\* what scripts/build_vectorstore.py can leave in "vectorstore" after at
\* most one run over one corpus
BuiltVectorstore ==
    {<<>>} \cup {vectorize_policies(<<>>, Corpus(tag), 1) : tag \in CorpusTags}

InitRag ==
    /\ chroma_db \in BuiltChroma
    /\ vectorstore_dir = <<>>
    /\ pvs = [pc |-> "idle", tag |-> "none", run |-> chroma_db.gen]
    /\ rag_runs = <<>>
    /\ vec_runs = <<>>
    /\ rag = [constructed |-> FALSE, collection |-> 0, openai_client |-> FALSE]
    /\ api = [vectorstore |-> FALSE, openai_client |-> FALSE]
    /\ web = [constructed |-> FALSE, openai_client |-> FALSE]
    /\ crawl = NoCrawl
    /\ last = NoCall

NextRag ==
    \/ \E key \in BOOLEAN : PolicyRAG_init(key)
    \/ \E q \in Questions, use \in BOOLEAN, k \in Ks, e \in BOOLEAN,
          gen \in GenOutcomes : PolicyRAG_query_call(q, use, k, e, gen)
    \/ \E q \in Questions, k \in Ks, e \in BOOLEAN :
          PolicyRAG_search_call(q, k, e)

SpecRag == InitRag /\ [][NextRag]_vars

InitApi ==
    /\ chroma_db = NoCollection
    /\ vectorstore_dir \in BuiltVectorstore
    /\ pvs = [pc |-> "idle", tag |-> "none", run |-> 0]
    /\ rag_runs = <<>>
    /\ vec_runs = <<>>
    /\ rag = [constructed |-> FALSE, collection |-> 0, openai_client |-> FALSE]
    /\ api = [vectorstore |-> FALSE, openai_client |-> FALSE]
    /\ web = [constructed |-> FALSE, openai_client |-> FALSE]
    /\ crawl = NoCrawl
    /\ last = NoCall

NextApi ==
    \/ \E key \in BOOLEAN, ok \in BOOLEAN : api_startup(key, ok)
    \/ \E q \in Questions, k \in Ks, e \in BOOLEAN : api_search_call(q, k, e)
    \/ \E q \in Questions, k \in Ks, e \in BOOLEAN, gen \in GenOutcomes :
          api_answer_call(q, k, e, gen)

SpecApi == InitApi /\ [][NextApi]_vars

InitWeb ==
    /\ chroma_db = NoCollection
    /\ vectorstore_dir = <<>>
    /\ pvs = [pc |-> "idle", tag |-> "none", run |-> 0]
    /\ rag_runs = <<>>
    /\ vec_runs = <<>>
    /\ rag = [constructed |-> FALSE, collection |-> 0, openai_client |-> FALSE]
    /\ api = [vectorstore |-> FALSE, openai_client |-> FALSE]
    /\ web = [constructed |-> FALSE, openai_client |-> FALSE]
    /\ crawl = NoCrawl
    /\ last = NoCall

NextWeb ==
    \/ \E key \in BOOLEAN : WebSearchRAG_init(key)
    \/ \E q \in Questions, use \in BOOLEAN, k \in Ks, e \in BOOLEAN,
          gen \in GenOutcomes :
          \E hits \in WebHitLists(k) :
             WebSearchRAG_query_call(q, use, k, hits, e, gen)

SpecWeb == InitWeb /\ [][NextWeb]_vars


--------------------------------------------------------------------------
\* Crawling.  Each parser is applied to a fetched detail page: a title
\* element (or none) and the form tables in document order, each with the
\* text of the <strong> before it and its rows of th / td cells.

Cell(text, href) == [text |-> text, href |-> href]

Row(th, td) == [th |-> th, td |-> td]

\* application periods as the site renders them: a single date, a range,
\* and a range with an interim deadline
PeriodValues ==
    { <<"2024-01-01">>,
      <<"2024-01-01", " ", "~", " ", "2024-01-31">>,
      <<"2024-01-01", "~", "2024-01-15", "~", Nbsp, "2024-01-31">> }

\* the rows a table under each section title can hold
SectionRows ==
    [overview |->
        {Row(<<LblPeriod>>, <<Cell(v, NoHref)>>) : v \in PeriodValues}
        \cup {Row(<<LblContent \o <<"/">> \o LblPeriod>>,
                  <<Cell(<<"2024-02-01", "~", "2024-02-28">>, NoHref)>>),
              Row(<<LblOperation, <<"bi", "go">> >>,
                  <<Cell(<<" ", "2024", Nbsp, "all", "year", Nbsp>>,
                         NoHref)>>)},
     eligibility |->
        {Row(<<LblSpecialized \o <<"(">> \o LblAge \o <<")">> >>,
             <<Cell(<<"IT">>, NoHref)>>)},
     method |->
        {Row(<<LblApplySite>>,
             <<Cell(<<"apply">>, <<"https://apply.example">>)>>)},
     other |->
        {Row(<<<<"ju", "gwan", "gi", "gwan">>>>,
             <<Cell(<<"seoul">>, NoHref)>>)}]

SectionTitle ==
    [overview |-> SecOverview, eligibility |-> SecEligibility,
     method |-> SecMethod, other |-> SecOther]

RowLists(rows) ==
    UNION {[1..n -> rows] : n \in 0..MaxRows}

PageTables ==
    UNION {{[title |-> SectionTitle[sec], rows |-> rows] :
               rows \in RowLists(SectionRows[sec])} :
             sec \in DOMAIN SectionRows}

Pages ==
    {[has_title |-> has_title, title |-> <<" ", "youth", " ", "job", "\n">>,
      tables |-> tables] :
        has_title \in BOOLEAN,
        tables \in UNION {[1..n -> PageTables] : n \in 0..MaxTables}}

PolicyIds == {<<"R2024000001">>}

ParseOps == {"detail_parser.parse_detail", "crawl_youth_jobs_2.parse_detail"}

\* what a parse_detail call was given and what it gave
Parsed(op, page, policy_id, res) ==
    [op |-> op, page |-> page, policy_id |-> policy_id,
     raised |-> res.raised, exc |-> res.exc, record |-> res.value]

\* requests.get has fetched the page of a policy id; nothing is parsed yet
Fetched(page, policy_id) ==
    [op |-> "fetched", page |-> page, policy_id |-> policy_id,
     raised |-> FALSE, exc |-> "", record |-> <<>>]

detail_parser_call ==
    /\ last.op = "fetched"
    /\ last' = Parsed("detail_parser.parse_detail", last.page,
                      last.policy_id,
                      parse_detail(last.page, last.policy_id))
    /\ UNCHANGED <<chroma_db, vectorstore_dir, pvs, rag_runs, vec_runs, rag,
                   api, web, crawl>>

crawl2_parse_call ==
    /\ last.op = "fetched"
    /\ last' = Parsed("crawl_youth_jobs_2.parse_detail", last.page,
                      last.policy_id,
                      crawl2_parse_detail(last.page, last.policy_id))
    /\ UNCHANGED <<chroma_db, vectorstore_dir, pvs, rag_runs, vec_runs, rag,
                   api, web, crawl>>

InitCrawl ==
    /\ chroma_db = NoCollection
    /\ vectorstore_dir = <<>>
    /\ pvs = [pc |-> "idle", tag |-> "none", run |-> 0]
    /\ rag_runs = <<>>
    /\ vec_runs = <<>>
    /\ rag = [constructed |-> FALSE, collection |-> 0, openai_client |-> FALSE]
    /\ api = [vectorstore |-> FALSE, openai_client |-> FALSE]
    /\ web = [constructed |-> FALSE, openai_client |-> FALSE]
    /\ crawl = NoCrawl
    /\ \E page \in Pages, id \in PolicyIds : last = Fetched(page, id)

NextCrawl ==
    \/ detail_parser_call
    \/ crawl2_parse_call

SpecCrawl == InitCrawl /\ [][NextCrawl]_vars

--------------------------------------------------------------------------
\* The crawl driver: one step per list page, one per category end

\* the loop variables at the start of a category
CategoryStart(cat) ==
    [cat |-> cat, page |-> 1, all_ids |-> {}, calls |-> <<>>,
     failed |-> {}, visited |-> <<>>, saves |-> <<>>]

\* what the run keeps of a category: its loop variables
Category(c) ==
    [cat |-> c.cat, page |-> c.page, all_ids |-> c.all_ids,
     calls |-> c.calls, failed |-> c.failed, visited |-> c.visited,
     saves |-> c.saves]

\* save_id_list: the list file of the category is rewritten
save_id_list(id_lists, id_list, cat_name) == Put(id_lists, cat_name, id_list)

\* one iteration of "for page in range(1, MAX_PAGES_PER_CATEGORY + 1)"
\* that goes on to the next page after an empty one
crawl_visit_page_no_break ==
    /\ crawl.pc = "page"
    /\ LET c == crawl
           cat_name == CATEGORIES[c.cat].name
           ids == get_policy_ids_selenium(c.site, CATEGORIES[c.cat].code,
                                          c.page)
           st == VisitIds([all_ids |-> c.all_ids, calls |-> c.calls,
                           failed |-> c.failed, files |-> c.files],
                          c.site, c.cat, ids)
           checkpoint == Cardinality(st.all_ids) % IdListSaveEvery = 0
           seen == [page |-> c.page, empty |-> ids = {},
                    count |-> Cardinality(st.all_ids)]
           save == [after |-> c.page, final |-> FALSE, ids |-> st.all_ids]
       IN crawl' =
             [c EXCEPT
                 !.all_ids = st.all_ids, !.calls = st.calls,
                 !.failed = st.failed, !.files = st.files,
                 !.visited = Append(@, seen),
                 !.saves = IF checkpoint THEN Append(@, save) ELSE @,
                 !.id_lists = IF checkpoint
                              THEN save_id_list(@, st.all_ids, cat_name)
                              ELSE @,
                 !.page = c.page + 1,
                 !.pc = IF c.page = MAX_PAGES_PER_CATEGORY
                        THEN "end" ELSE "page"]
    /\ UNCHANGED <<chroma_db, vectorstore_dir, pvs, rag_runs, vec_runs, rag,
                   api, web, last>>

\* one iteration of "for page in range(1, MAX_PAGES_PER_CATEGORY + 1)":
\* an empty page breaks the loop; else the new ids are visited and the id
\* list is saved when its length is a multiple of IdListSaveEvery
crawl_visit_page ==
    /\ crawl.pc = "page"
    /\ LET c == crawl
           cat_name == CATEGORIES[c.cat].name
           ids == get_policy_ids_selenium(c.site, CATEGORIES[c.cat].code,
                                          c.page)
           st == VisitIds([all_ids |-> c.all_ids, calls |-> c.calls,
                           failed |-> c.failed, files |-> c.files],
                          c.site, c.cat, ids)
           checkpoint == Cardinality(st.all_ids) % IdListSaveEvery = 0
           seen == [page |-> c.page, empty |-> ids = {},
                    count |-> Cardinality(st.all_ids)]
           save == [after |-> c.page, final |-> FALSE, ids |-> st.all_ids]
       IN IF ids = {}
          THEN crawl' = [c EXCEPT !.visited = Append(@, seen), !.pc = "end"]
          ELSE crawl' =
                 [c EXCEPT
                     !.all_ids = st.all_ids, !.calls = st.calls,
                     !.failed = st.failed, !.files = st.files,
                     !.visited = Append(@, seen),
                     !.saves = IF checkpoint THEN Append(@, save) ELSE @,
                     !.id_lists = IF checkpoint
                                  THEN save_id_list(@, st.all_ids, cat_name)
                                  ELSE @,
                     !.page = c.page + 1,
                     !.pc = IF c.page = MAX_PAGES_PER_CATEGORY
                            THEN "end" ELSE "page"]
    /\ UNCHANGED <<chroma_db, vectorstore_dir, pvs, rag_runs, vec_runs, rag,
                   api, web, last>>

\* after the page loop: the id list of the category is saved, and the
\* next category starts with an empty id set (the run ends after the last)
crawl_end_category ==
    /\ crawl.pc = "end"
    /\ LET c == crawl
           cat_name == CATEGORIES[c.cat].name
           save == [after |-> c.visited[Len(c.visited)].page,
                    final |-> TRUE, ids |-> c.all_ids]
           ended == Category([c EXCEPT !.saves = Append(@, save)])
           lists == save_id_list(c.id_lists, c.all_ids, cat_name)
       IN IF c.cat < Len(CATEGORIES)
          THEN crawl' = CategoryStart(c.cat + 1) @@
                        [pc |-> "page", site |-> c.site, files |-> c.files,
                         id_lists |-> lists,
                         finished |-> Append(c.finished, ended)]
          ELSE crawl' = [c EXCEPT !.pc = "done",
                                  !.saves = Append(@, save),
                                  !.id_lists = lists,
                                  !.finished = Append(@, ended)]
    /\ UNCHANGED <<chroma_db, vectorstore_dir, pvs, rag_runs, vec_runs, rag,
                   api, web, last>>

\* the run starts on some site with data/processed empty
InitDriver ==
    /\ chroma_db = NoCollection
    /\ vectorstore_dir = <<>>
    /\ pvs = [pc |-> "idle", tag |-> "none", run |-> 0]
    /\ rag_runs = <<>>
    /\ vec_runs = <<>>
    /\ rag = [constructed |-> FALSE, collection |-> 0, openai_client |-> FALSE]
    /\ api = [vectorstore |-> FALSE, openai_client |-> FALSE]
    /\ web = [constructed |-> FALSE, openai_client |-> FALSE]
    /\ last = NoCall
    /\ \E site \in Sites :
          crawl = CategoryStart(1) @@
                  [pc |-> "page", site |-> site, files |-> <<>>,
                   id_lists |-> <<>>, finished |-> <<>>]

NextDriver ==
    \/ crawl_visit_page
    \/ crawl_end_category

SpecDriver == InitDriver /\ [][NextDriver]_vars

--------------------------------------------------------------------------
\* vectorize_policies on the policy files load_policy_data can find

\* policy JSON files of every kind the crawlers can leave: with no text
\* field at all, with one date of the application period or both, with a
\* title of one space, with an empty title next to a content, and full
LoadedPolicy(kind) ==
    LET id == [plcyBizId |-> <<"R", kind>>,
               page_url |-> <<"view.do?plcyBizId=R", kind>>]
    IN IF kind = "bare" THEN id
       ELSE IF kind = "start" THEN id @@ [apply_start |-> <<"2024-01-01">>]
       ELSE IF kind = "end" THEN id @@ [apply_end |-> <<"2024-12-31">>]
       ELSE IF kind = "period"
       THEN id @@ [apply_start |-> <<"2024-01-01">>,
                   apply_end |-> <<"2024-12-31">>]
       ELSE IF kind = "space" THEN id @@ [title |-> <<" ">>]
       ELSE IF kind = "untitled"
       THEN id @@ [title |-> EmptyText, content |-> <<"support">>,
                   apply_start |-> <<"2024-01-01">>, apply_end |-> EmptyText]
       ELSE id @@ [title |-> <<"youth", " ", "job">>,
                   content |-> <<"support">>, agency |-> <<"seoul">>,
                   apply_start |-> <<"2024-01-01">>,
                   apply_end |-> <<"2024-12-31">>]

PolicyKinds ==
    {"bare", "start", "end", "period", "space", "untitled", "full"}

LoadedPolicies ==
    UNION {[1..n -> {LoadedPolicy(kind) : kind \in PolicyKinds}] :
             n \in 0..MaxPolicies}

\* vectorize_policies(policies) over what "vectorstore" holds
vectorize_policies_call ==
    /\ last.op = "loaded"
    /\ vectorstore_dir' = vectorize_policies(vectorstore_dir, last.policies,
                                             Len(vec_runs) + 1)
    /\ last' = [op |-> "vectorized", policies |-> last.policies,
                before |-> Len(vectorstore_dir)]
    /\ UNCHANGED <<chroma_db, pvs, rag_runs, vec_runs, rag, api, web, crawl>>

InitVectorize ==
    /\ chroma_db = NoCollection
    /\ \E tag \in {"none", "old"} :
          /\ vec_runs = IF tag = "none" THEN <<>> ELSE <<tag>>
          /\ vectorstore_dir = IF tag = "none" THEN <<>>
                               ELSE vectorize_policies(<<>>, Corpus(tag), 1)
    /\ pvs = [pc |-> "idle", tag |-> "none", run |-> 0]
    /\ rag_runs = <<>>
    /\ rag = [constructed |-> FALSE, collection |-> 0, openai_client |-> FALSE]
    /\ api = [vectorstore |-> FALSE, openai_client |-> FALSE]
    /\ web = [constructed |-> FALSE, openai_client |-> FALSE]
    /\ crawl = NoCrawl
    /\ \E policies \in LoadedPolicies :
          last = [op |-> "loaded", policies |-> policies, before |-> 0]

NextVectorize == vectorize_policies_call

SpecVectorize == InitVectorize /\ [][NextVectorize]_vars

--------------------------------------------------------------------------
\* Rendering.  Context assembly and the template answers are functions of
\* the matches they are given; they are applied to matches whose metadata
\* holds any part of the optional keys.

\* metadata keys a stored document may come without
OptionalKeys == {"category", "url", "agency", "age_range"}

Without(metadata, dropped) ==
    [k \in DOMAIN metadata \ dropped |-> metadata[k]]

\* the rows search_policies returns for the k nearest documents of a
\* corpus, their metadata without the dropped keys
MatchesOf(tag, k, dropped) ==
    LET documents == prepare_documents(Corpus(tag), 1)
        docs == build_index(<<>>, documents, create_embeddings(documents))
        rows == SearchRows(IndexQuery(docs, Encode(<<"youth", "job">>), k,
                                      FALSE).value)
    IN [i \in DOMAIN rows |->
           [rows[i] EXCEPT !.metadata = Without(@, dropped)]]

\* the documents similarity_search returns, likewise
DocsOf(tag, k, dropped) ==
    LET docs == similarity_search(vectorize_policies(<<>>, Corpus(tag), 1),
                                  <<"youth", "job">>, k, FALSE).value
    IN [i \in DOMAIN docs |->
           [docs[i] EXCEPT !.metadata = Without(@, dropped)]]

RenderOps ==
    {"PolicyRAG.create_context", "PolicyRAG.generate_simple_response",
     "generate_llm_answer"}

\* what a rendering step was given and what it gave
Rendered(op, given, res) ==
    [op |-> op, question |-> given.question, dropped |-> given.dropped,
     matches |-> given.matches, docs |-> given.docs,
     raised |-> res.raised, exc |-> res.exc, text |-> res.value]

create_context_call ==
    /\ last.op = "matched"
    /\ last' = Rendered("PolicyRAG.create_context", last,
                        create_context(last.matches))
    /\ UNCHANGED <<chroma_db, vectorstore_dir, pvs, rag_runs, vec_runs, rag,
                   api, web, crawl>>

generate_simple_response_call ==
    /\ last.op = "matched"
    /\ last' = Rendered("PolicyRAG.generate_simple_response", last,
                        generate_simple_response(last.question,
                                                 last.matches))
    /\ UNCHANGED <<chroma_db, vectorstore_dir, pvs, rag_runs, vec_runs, rag,
                   api, web, crawl>>

\* generate_llm_answer without a client, or with one whose call fails:
\* the template part
generate_llm_answer_call(client, gen) ==
    /\ last.op = "matched"
    /\ last' = Rendered("generate_llm_answer", last,
                        generate_llm_answer(last.question, last.docs,
                                            client, gen))
    /\ UNCHANGED <<chroma_db, vectorstore_dir, pvs, rag_runs, vec_runs, rag,
                   api, web, crawl>>

InitRender ==
    /\ chroma_db = NoCollection
    /\ vectorstore_dir = <<>>
    /\ pvs = [pc |-> "idle", tag |-> "none", run |-> 0]
    /\ rag_runs = <<>>
    /\ vec_runs = <<>>
    /\ rag = [constructed |-> FALSE, collection |-> 0, openai_client |-> FALSE]
    /\ api = [vectorstore |-> FALSE, openai_client |-> FALSE]
    /\ web = [constructed |-> FALSE, openai_client |-> FALSE]
    /\ crawl = NoCrawl
    /\ \E tag \in CorpusTags, k \in 1..MaxK, dropped \in SUBSET OptionalKeys :
          last = [op |-> "matched", question |-> <<"youth", "job">>,
                  dropped |-> dropped,
                  matches |-> MatchesOf(tag, k, dropped),
                  docs |-> DocsOf(tag, k, dropped),
                  raised |-> FALSE, exc |-> "", text |-> EmptyText]

NextRender ==
    \/ create_context_call
    \/ generate_simple_response_call
    \/ \E client \in BOOLEAN, gen \in GenOutcomes :
          generate_llm_answer_call(client, gen)

SpecRender == InitRender /\ [][NextRender]_vars

--------------------------------------------------------------------------
\* Properties

AnswerOps == {"PolicyRAG.query", "POST /answer", "WebSearchRAG.query"}

SearchOps == {"PolicyRAG.search_policies", "PolicyVectorStore.search",
              "POST /search"}

\* the deterministic template rendering of the matches of the latest call
TemplateOfLast ==
    IF last.op = "PolicyRAG.query"
    THEN generate_simple_response(last.question, last.matches).value
    ELSE IF last.op = "WebSearchRAG.query"
    THEN create_simple_summary(last.question, last.matches)
    ELSE TemplateAnswer(last.question,
                        similarity_search(vectorstore_dir, last.question,
                                          last.k, FALSE).value)

\* the latest call ended in an error the caller can tell from an answer
LastIsError == last.raised \/ last.error # ""

\* the latest call asked with a non-empty query and k >= 1
LastIsValid == last.question # EmptyText /\ last.k >= 1

\* C1: when the model path is selected (use_model, a generation client
\* configured, at least one match) and the generation call fails, the call
\* still returns a non-error result whose answer is the template rendering
\* of the same matches and whose used_model flag is false.
C1_FallbackToTemplate ==
    (/\ last.op \in AnswerOps /\ LastIsValid
     /\ last.use_model /\ last.client
     /\ last.matches # <<>>
     /\ last.gen = "fail")
    => /\ ~LastIsError
       /\ last.answer = TemplateOfLast
       /\ ~last.used_model

\* C2: when the index has not been built (collection missing or empty) an
\* answer call ends in an error, never in an ordinary answer bundle.
C2_NotReadyIsAnError ==
    (/\ last.op \in AnswerOps /\ LastIsValid
     /\ last.index_state \in {"absent", "empty"})
    => LastIsError

\* C3: an answer call with an empty query or k < 1 is rejected before any
\* search or synthesis: no index query is issued and no answer is produced
\* (stated for a built index, where nothing else can reject the call).
C3_InvalidRequestRejected ==
    (last.op \in AnswerOps /\ ~LastIsValid /\ last.index_state = "built")
    => /\ LastIsError
       /\ last.index_queries = 0
       /\ last.gen_calls = 0
       /\ last.answer = EmptyText

\* C4: for a valid request, a failure raised during search or synthesis
\* never reaches the caller of an answer entry point: the call returns a
\* bundle with an answer text.
C4_FailureNeverPropagates ==
    (/\ last.op \in AnswerOps /\ LastIsValid
     /\ (last.index_error \/ last.gen = "fail"))
    => ~last.raised /\ last.answer # EmptyText

\* C5: the generation capability is never invoked for a call whose match
\* list is empty.
C5_NoGenerationWithoutMatches ==
    (last.op \in AnswerOps /\ LastIsValid /\ last.gen_calls > 0)
    => last.matches # <<>>

\* C6: the context assembled from an empty match list is the fixed "no
\* relevant information" sentence, never the empty string, in the vector
\* index variant and in the web variant.
C6_EmptyMatchesGiveSentinel ==
    (/\ last.op \in {"PolicyRAG.query", "WebSearchRAG.query"}
     /\ LastIsValid /\ ~LastIsError
     /\ last.matches = <<>>)
    => last.context # EmptyText /\ last.context = NoWebResultsText

\* C7: a search on an absent or empty collection returns an empty list and
\* never raises.
C7_SearchOnUnbuiltIndexIsEmpty ==
    (/\ last.op \in SearchOps /\ LastIsValid
     /\ last.index_state \in {"absent", "empty"})
    => ~last.raised /\ last.matches = <<>>

\* C8: an error the index raises while executing a query is recovered in
\* the search step, which returns an empty match list to its caller, for
\* every search entry point.
C8_IndexErrorGivesEmptyList ==
    (last.op \in SearchOps /\ LastIsValid /\ last.index_error)
    => ~last.raised /\ last.matches = <<>>

FromCorpus(doc, tag) ==
    \E i \in 1..MaxPolicies :
        Get(doc.metadata, "title", EmptyText) = Policy(tag, i).title

Mixed(docs) ==
    \E a, b \in DOMAIN docs :
        FromCorpus(docs[a], "old") /\ FromCorpus(docs[b], "new")

\* C9: in every state of a rebuild, also the one a failed rebuild leaves,
\* no collection holds documents of the old and of the new corpus at once.
C9_NeverOldAndNewTogether ==
    ~Mixed(chroma_db.docs) /\ ~Mixed(vectorstore_dir)

\* what is stored, without the ids
Contents(docs) ==
    [n \in DOMAIN docs |->
        [document |-> docs[n].document, metadata |-> docs[n].metadata]]

AllRunsOver(runs, tag) == runs # <<>> /\ \A n \in DOMAIN runs : runs[n] = tag

\* C10: after one or more completed runs of a builder over the same corpus
\* the store holds what one run leaves: one document per indexed policy.
C10_RebuildIsIdempotent ==
    \A tag \in CorpusTags :
        /\ AllRunsOver(vec_runs, tag)
           => /\ Contents(vectorstore_dir)
                 = Contents(vectorize_policies(<<>>, Corpus(tag), 1))
              /\ Len(vectorstore_dir) = Len(Documents(Corpus(tag)))
        /\ (AllRunsOver(rag_runs, tag) /\ pvs.pc = "built")
           => /\ Contents(chroma_db.docs)
                 = Contents(build_index(<<>>,
                               prepare_documents(Corpus(tag), 1),
                               create_embeddings(
                                   prepare_documents(Corpus(tag), 1))))
              /\ Len(chroma_db.docs) = Len(Corpus(tag))

\* a page whose only table is an overview table with the one row
\* "application period" / value
OnlyPeriodRow(page) ==
    /\ Len(page.tables) = 1
    /\ page.tables[1].title = SecOverview
    /\ Len(page.tables[1].rows) = 1
    /\ page.tables[1].rows[1].th = <<LblPeriod>>
    /\ Len(page.tables[1].rows[1].td) = 1

\* C11: every parse_detail gives apply_start the trimmed first '~' segment
\* of the application period and apply_end the trimmed last one (also with
\* three or more segments); a value without '~' is apply_start whole and
\* apply_end is the empty string.
C11_PeriodFirstAndLastSegment ==
    (last.op \in ParseOps /\ OnlyPeriodRow(last.page))
    => LET value == last.page.tables[1].rows[1].td[1].text
       IN /\ ~last.raised
          /\ {"apply_start", "apply_end"} \subseteq DOMAIN last.record
          /\ last.record["apply_start"] = <<"2024-01-01">>
          /\ last.record["apply_end"]
                = IF \E i \in DOMAIN value : value[i] = "~"
                  THEN <<"2024-01-31">> ELSE EmptyText

\* C12: normalization is total: whatever the page holds, parse_detail
\* returns a record and never raises.
C12_ParseDetailNeverRaises ==
    last.op \in ParseOps => ~last.raised

\* the label table a parser uses for a table title
TableOf(op, table_title) ==
    IF op = "crawl_youth_jobs_2.parse_detail" THEN Crawl2Table
    ELSE IF SectionOf(table_title) = "none" THEN <<>>
    ELSE LabelTables[SectionOf(table_title)]

Matching(table, label) ==
    {n \in DOMAIN table : Contains(label, table[n].pattern)}

Longest(table, label) ==
    {n \in Matching(table, label) :
        \A m \in Matching(table, label) :
            Len(table[m].pattern) <= Len(table[n].pattern)}

\* a page with exactly one header / cell pair
OnlyOnePair(page) ==
    /\ Len(page.tables) = 1
    /\ Len(page.tables[1].rows) = 1
    /\ Len(page.tables[1].rows[1].th) = 1
    /\ Len(page.tables[1].rows[1].td) = 1

\* C13: a label that contains several patterns of its section's table is
\* assigned to the field of the longest pattern, whatever the table order.
C13_LongestPatternWins ==
    (last.op \in ParseOps /\ ~last.raised /\ OnlyOnePair(last.page))
    => LET table == TableOf(last.op, last.page.tables[1].title)
           label == Strip(last.page.tables[1].rows[1].th[1])
       IN \A n \in Longest(table, label) :
             (Cardinality(Matching(table, label)) > 1
              /\ Longest(table, label) = {n})
             => /\ table[n].key \in DOMAIN last.record
                /\ \A m \in Matching(table, label) :
                      table[m].key # table[n].key
                      => table[m].key \notin DOMAIN last.record

\* C14: of several sections whose titles contain the same marker only the
\* first contributes: the record is that of the page without the later
\* duplicate.
C14_FirstDuplicateSectionWins ==
    (/\ last.op = "detail_parser.parse_detail"
     /\ Len(last.page.tables) = 2
     /\ SectionOf(last.page.tables[1].title) # "none"
     /\ SectionOf(last.page.tables[1].title)
           = SectionOf(last.page.tables[2].title))
    => last.record
          = parse_detail([last.page EXCEPT !.tables = <<@[1]>>],
                         last.policy_id).value

\* the PolicyRecord fields of the data model; the record key of policy_id
\* is plcyBizId
PolicyRecordFields ==
    {"plcyBizId", "title", "agency", "policy_type", "introduction",
     "content", "support_scale", "age_range", "education",
     "employment_status", "major_requirement", "specialized_field",
     "additional_requirements", "excluded_targets", "apply_start",
     "apply_end", "application_procedure", "required_documents",
     "evaluation_announcement", "application_site", "related_site",
     "reference_site_1", "reference_site_2", "operating_agency",
     "other_matters"}

\* C15: every field other than policy_id and title whose label is not on
\* the page is a key of the record, with the empty string as its value.
C15_OmittedFieldsAreEmptyStrings ==
    (last.op = "detail_parser.parse_detail" /\ last.page.tables = <<>>)
    => \A f \in PolicyRecordFields \ {"plcyBizId", "title"} :
          f \in DOMAIN last.record /\ last.record[f] = EmptyText

\* C16: policy_id and title are non-empty in every record, also when the
\* page has no title element.
C16_IdAndTitleNonEmpty ==
    (last.op \in ParseOps /\ ~last.raised)
    => /\ last.record["plcyBizId"] # EmptyText
       /\ last.record["title"] # EmptyText

\* C17: the keys of a record are PolicyRecord fields: an unmatched label
\* adds no key and no table entry writes a key outside the data model.
C17_KeysArePolicyRecordFields ==
    (last.op \in ParseOps /\ ~last.raised)
    => DOMAIN last.record \subseteq PolicyRecordFields

\* the keys of a stored metadata map whose value is the empty string
\* (original_index is a number, not a string)
EmptyKeys(metadata) ==
    {k \in DOMAIN metadata \ {"original_index"} : ~Truthy(metadata[k])}

\* C18: no metadata map stored in an index has a key with an empty
\* string value, whichever builder wrote the document.
C18_NoFalsyMetadataStored ==
    /\ \A n \in DOMAIN chroma_db.docs :
          EmptyKeys(chroma_db.docs[n].metadata) = {}
    /\ \A n \in DOMAIN vectorstore_dir :
          EmptyKeys(vectorstore_dir[n].metadata) = {}

\* C19: context assembly and template rendering complete normally, with a
\* text, on matches whose metadata lacks any of the optional keys.
C19_MissingKeyIsNotAnError ==
    last.op \in RenderOps => ~last.raised

\* the distance of a returned match: its content is the stored document
\* text, whose embedding the index holds
DistanceOf(question, match) == Distance(Encode(question), Encode(match.content))

\* C20: a search returns at most k matches in ascending distance, the i-th
\* with rank i, and every score is exactly 1 - distance, unclamped.
C20_RankAndScoreOfMatches ==
    (last.op \in {"PolicyRAG.search_policies", "PolicyVectorStore.search"}
     /\ ~last.raised)
    => LET m == last.matches
       IN /\ Len(m) <= last.k
          /\ \A i \in DOMAIN m :
                /\ m[i].rank = i
                /\ m[i].score = 1 - DistanceOf(last.question, m[i])
          /\ \A i, j \in DOMAIN m :
                i < j => DistanceOf(last.question, m[i])
                            <= DistanceOf(last.question, m[j])

\* a search gave two matches, the nearer one stored after the farther one,
\* and a distance above 1 gave a score below 0
C20_Witness ==
    /\ last.op = "PolicyRAG.search_policies"
    /\ ~last.raised
    /\ Len(last.matches) = 2
    /\ last.matches[1].metadata["original_index"]
          > last.matches[2].metadata["original_index"]
    /\ last.matches[2].score < 0


\* C21: within one answer call generation is invoked at most once (no
\* retry), and a call whose one generation attempt failed ends on the
\* template path: a non-error result carrying the template rendering.
C21_GenerationOnceThenTemplate ==
    (last.op \in AnswerOps /\ LastIsValid)
    => /\ last.gen_calls <= 1
       /\ (last.gen_calls = 1 /\ last.gen = "fail")
             => /\ ~LastIsError
                /\ last.answer = TemplateOfLast

\* the part of C21 about the number of attempts alone
GenerationAtMostOnce == last.op \in AnswerOps => last.gen_calls <= 1


\* the documents the index returns for the latest POST /answer
AnswerDocs ==
    similarity_search(vectorstore_dir, last.question, last.k, FALSE).value

\* C22: the confidence of an answer bundle is ConfidenceWithSources when
\* at least one match was returned as a source and 0 when none was; it is
\* the same whether the model or the template wrote the answer.
C22_ConfidenceTwoValued ==
    (last.op = "POST /answer" /\ ~last.raised)
    => /\ Len(last.matches) = Len(AnswerDocs)
       /\ last.confidence = IF AnswerDocs # <<>>
                            THEN ConfidenceWithSources ELSE 0

\* an answer written by the model over two sources, confidence 0.9
C22_Witness ==
    /\ last.op = "POST /answer"
    /\ ~last.raised
    /\ last.used_model
    /\ Len(last.matches) = 2
    /\ last.confidence = ConfidenceWithSources


\* the labels that open the lines of a template block, in block order,
\* and the closing suggestion line
TemplateLabels ==
    <<"* ", "   agency: ", "   age: ", "   apply period: ",
      "   application site: ", "   summary: ">>

ClosingLine == <<"for details visit each application site!">>

\* 1..6 for a line opened by the label of that position, 7 for the
\* closing line, 0 for any other line
LabelOrd(line) ==
    IF line = ClosingLine THEN 7
    ELSE IF line # <<>> /\ \E n \in 1..6 : line[1] = TemplateLabels[n]
    THEN CHOOSE n \in 1..6 : line[1] = TemplateLabels[n]
    ELSE 0

\* the labelled lines of a text, in text order
Labelled(text) == SelectSeq(Split(text, "\n"), LAMBDA l : LabelOrd(l) # 0)

\* the field of a document that the labelled line of position n shows
ShownField(doc, n, i) ==
    LET md == doc.metadata
    IN IF n = 1 THEN Str(i) \o <<". ">> \o Get(md, "title", <<"no title">>)
       ELSE IF n = 2 THEN Get(md, "agency", EmptyText)
       ELSE IF n = 3 THEN Get(md, "age_range", EmptyText)
       ELSE IF n = 4 THEN Get(md, "apply_start", EmptyText) \o <<" ~ ">>
                          \o Get(md, "apply_end", EmptyText)
       ELSE IF n = 5 THEN Get(md, "application_site", EmptyText)
       ELSE Split(doc.page_content, "\n")[1]

\* the latest call rendered its documents with the template
LastIsTemplate ==
    /\ last.op = "generate_llm_answer"
    /\ ~last.raised
    /\ last.docs # <<>>
    /\ last.text[1] # "[generated] "

\* C23: the template renders one block per match in rank order; inside a
\* block the lines come in the order title, agency, age range, application
\* period, application site, summary, whichever optional lines are left
\* out; the closing suggestion line comes after the last block.
C23_TemplateLineOrder ==
    LastIsTemplate
    => LET lines == Split(last.text, "\n")
           ls == Labelled(last.text)
           ord(i) == LabelOrd(ls[i])
           block(i) == Cardinality({j \in 1..i : ord(j) = 1})
       IN /\ lines[Len(lines)] = ClosingLine
          /\ ord(Len(ls)) = 7
          /\ ord(1) = 1
          /\ block(Len(ls)) = Len(last.docs)
          /\ \A i \in 1..(Len(ls) - 1) :
                /\ ord(i) # 7
                /\ IF ord(i) = 6 THEN ord(i + 1) \in {1, 7}
                   ELSE ord(i) < ord(i + 1) /\ ord(i + 1) <= 6
                /\ ls[i] = <<TemplateLabels[ord(i)]>>
                           \o ShownField(last.docs[block(i)], ord(i),
                                         block(i))

\* two blocks were rendered: the first without its age line, the second
\* with both its agency line and its age line
C23_Witness ==
    /\ LastIsTemplate
    /\ Len(last.docs) = 2
    /\ "age_range" \notin DOMAIN last.docs[1].metadata
    /\ {"agency", "age_range"} \subseteq DOMAIN last.docs[2].metadata


\* the number of ellipsis atoms in a text
Ellipses(text) == Cardinality({i \in DOMAIN text : text[i] = "..."})

\* C24: a rendered context shows each match's content cut to the
\* configured length, with an ellipsis appended exactly for the matches
\* whose content was longer than that length.
C24_EllipsisOnlyWhenCut ==
    (last.op = "PolicyRAG.create_context" /\ ~last.raised)
    => Ellipses(last.text)
          = Cardinality({i \in DOMAIN last.matches :
                            Len(last.matches[i].content) > ContextMaxChars})


\* C25: a query is a frame operation on the shared state: a step that
\* records a query result leaves the contents of both indexes and the
\* handles loaded by the front ends exactly as they were.
C25_QueryLeavesSharedStateAlone ==
    [][last' # last
       => /\ chroma_db' = chroma_db
          /\ vectorstore_dir' = vectorstore_dir
          /\ rag' = rag
          /\ api' = api
          /\ web' = web]_vars

\* a query answered from a non-empty index through a loaded handle
C25_Witness ==
    /\ last.op = "PolicyRAG.query"
    /\ ~last.raised
    /\ last.matches # <<>>
    /\ rag.collection = chroma_db.gen
    /\ Len(chroma_db.docs) >= Len(last.matches)


\* C26: a constructed PolicyVectorStore holds an empty collection whatever
\* the collection held before (delete, then create), and a run that finds
\* no policy data returns from main() without adding, so it ends with the
\* collection present and empty: the previous index is gone.
C26_EmptyRunDestroysIndex ==
    /\ [](pvs.pc = "created" => chroma_db.exists /\ chroma_db.docs = <<>>)
    /\ [][(pvs.pc = "created" /\ pvs.tag = "none"
           /\ rag_runs' = Append(rag_runs, "none"))
          => /\ pvs'.pc = "idle"
             /\ chroma_db'.exists
             /\ chroma_db'.docs = <<>>]_vars

\* a run over a corpus built the index, then a run without input ended:
\* the collection is there and empty
C26_Witness ==
    /\ Len(rag_runs) = 2
    /\ rag_runs[1] \in CorpusTags
    /\ rag_runs[2] = "none"
    /\ pvs.pc = "idle"
    /\ chroma_db.exists
    /\ chroma_db.docs = <<>>


\* the categories the crawl has ended, and all it has started
EndedCategories == IF crawl.pc = "off" THEN <<>> ELSE crawl.finished

StartedCategories ==
    IF crawl.pc \in {"off", "done"} THEN EndedCategories
    ELSE Append(crawl.finished, Category(crawl))

\* C27: within one category parse_detail is invoked at most once for an
\* id, on however many pages the id is listed and whether or not the
\* attempt raised; the id is in the id set whatever the fetch gave, so an
\* id whose fetch failed is never tried again and is in the saved id list.
C27_OneFetchPerIdPerCategory ==
    /\ \A i \in DOMAIN StartedCategories :
          LET c == StartedCategories[i]
          IN /\ DOMAIN c.calls = c.all_ids
             /\ \A n \in DOMAIN c.calls : c.calls[n] = 1
             /\ c.failed \subseteq c.all_ids
    /\ \A i \in DOMAIN EndedCategories :
          LET c == EndedCategories[i]
          IN /\ c.failed \subseteq c.saves[Len(c.saves)].ids
             /\ c.failed \subseteq crawl.id_lists[CATEGORIES[c.cat].name]

\* a category ended in which policy 2, listed on pages 1 and 2, failed to
\* load: it was fetched once and is in the saved id list
C27_Witness ==
    /\ crawl.pc # "off"
    /\ crawl.finished # <<>>
    /\ crawl.site.shape.width > crawl.site.shape.stride
    /\ crawl.site.pages >= 2
    /\ crawl.finished[1].failed = {2}
    /\ crawl.finished[1].calls[2] = 1
    /\ 2 \in crawl.id_lists["all"]

\* the pages of a category are visited in increasing order from 1, at
\* most MAX_PAGES_PER_CATEGORY of them, and none after an empty page
PagesInOrder(c) ==
    /\ Len(c.visited) <= MAX_PAGES_PER_CATEGORY
    /\ \A i \in DOMAIN c.visited :
          /\ c.visited[i].page = i
          /\ c.visited[i].empty
                = (get_policy_ids_selenium(crawl.site,
                                           CATEGORIES[c.cat].code, i) = {})
          /\ c.visited[i].empty => i = Len(c.visited)

\* an ended category stopped at an empty page or after the last allowed
\* page, and its id list file holds its ids
EndedInOrder(c) ==
    /\ c.visited # <<>>
    /\ \/ c.visited[Len(c.visited)].empty
       \/ Len(c.visited) = MAX_PAGES_PER_CATEGORY
    /\ c.saves # <<>>
    /\ LET final == c.saves[Len(c.saves)]
       IN /\ final.final
          /\ final.ids = c.all_ids
          /\ final.after = Len(c.visited)

\* the categories are crawled in the order of CATEGORIES, and the run ends
\* when all of them have ended
CategoriesInOrder ==
    /\ \A i \in DOMAIN StartedCategories : StartedCategories[i].cat = i
    /\ Len(StartedCategories) <= Len(CATEGORIES)
    /\ crawl.pc = "done" => Len(EndedCategories) = Len(CATEGORIES)

\* the visits of a category after which the id list is saved inside the
\* page loop
Checkpoints(c) ==
    SelectSeq(c.visited,
              LAMBDA v : ~v.empty /\ v.count % IdListSaveEvery = 0)

\* C28 as stated: pages in increasing order from 1 up to the first empty
\* page or page MAX_PAGES_PER_CATEGORY, categories one after the other
\* until all are done, and the id list of a category saved exactly once,
\* after its last page.
C28_IdListSavedExactlyOnce ==
    /\ CategoriesInOrder
    /\ \A i \in DOMAIN StartedCategories : PagesInOrder(StartedCategories[i])
    /\ \A i \in DOMAIN EndedCategories :
          /\ EndedInOrder(EndedCategories[i])
          /\ Len(EndedCategories[i].saves) = 1

\* C28 amended: as stated, except that the id list of a category is saved
\* after its last page and also after every non-empty page at which the
\* number of ids collected so far in the category is a multiple of
\* IdListSaveEvery.
C28_IdListSavedAtCheckpointsAndEnd ==
    /\ CategoriesInOrder
    /\ \A i \in DOMAIN StartedCategories :
          LET c == StartedCategories[i]
              cps == Checkpoints(c)
          IN /\ PagesInOrder(c)
             /\ Len(c.saves) >= Len(cps)
             /\ \A j \in DOMAIN cps :
                   /\ ~c.saves[j].final
                   /\ c.saves[j].after = cps[j].page
                   /\ Cardinality(c.saves[j].ids) = cps[j].count
                   /\ c.saves[j].ids \subseteq c.all_ids
    /\ \A i \in DOMAIN EndedCategories :
          LET c == EndedCategories[i]
          IN /\ EndedInOrder(c)
             /\ Len(c.saves) = Len(Checkpoints(c)) + 1
             /\ crawl.id_lists[CATEGORIES[c.cat].name] = c.all_ids

\* the run is done; its first category took all its allowed pages and
\* its id list was saved twice inside the page loop and once at the end
C28_Witness ==
    /\ crawl.pc = "done"
    /\ Len(crawl.finished[1].visited) = MAX_PAGES_PER_CATEGORY
    /\ Len(crawl.finished[1].saves) = 3
    /\ Len(crawl.finished) = Len(CATEGORIES)


\* the ids the crawl has recorded in any category
SeenIds == UNION {StartedCategories[i].all_ids : i \in DOMAIN StartedCategories}

\* the categories in which save_json was called for policy n and its
\* open() created the file or found it
WritesOf(n) ==
    {i \in DOMAIN StartedCategories :
        /\ n \in StartedCategories[i].all_ids \ StartedCategories[i].failed
        /\ WriteOutcome(crawl.site, n, i) # "before"}

\* what the write of policy n in category i puts in a new file
WrittenBy(n, i) ==
    IF WriteOutcome(crawl.site, n, i) = "ok"
    THEN driver_parse_detail(crawl.site, n, i).value
    ELSE PartialFile

\* C29: save_json is first-write-wins: a file that exists is never
\* changed, so the file of an id holds what the first save that created
\* it wrote, whatever later saves of that id were given; a failure while
\* writing is swallowed and the run goes on.
C29_FirstWriteWins ==
    /\ [](crawl.pc # "off"
          => /\ DOMAIN crawl.files
                   = {PolicyId(n) : n \in {m \in SeenIds : WritesOf(m) # {}}}
             /\ \A n \in SeenIds :
                   WritesOf(n) # {}
                   => LET first == CHOOSE i \in WritesOf(n) :
                                      \A j \in WritesOf(n) : i <= j
                      IN crawl.files[PolicyId(n)] = WrittenBy(n, first))
    /\ [][crawl.pc # "off"
          => \A f \in DOMAIN crawl.files :
                f \in DOMAIN crawl'.files /\ crawl'.files[f] = crawl.files[f]
         ]_vars

\* three categories have ended: the file of policy 1 still holds the
\* record of the first category, and the file of policy 2, whose first
\* write failed before the file existed, the record of the second
C29_Witness ==
    /\ crawl.pc # "off"
    /\ Len(crawl.finished) >= 3
    /\ crawl.site.write_fault = "before"
    /\ \A i \in 1..3 : {1, 2} \subseteq crawl.finished[i].all_ids
                       /\ crawl.finished[i].failed = {}
    /\ crawl.files[PolicyId(1)] = WrittenBy(1, 1)
    /\ crawl.files[PolicyId(2)] = WrittenBy(2, 2)
    /\ WrittenBy(2, 2) # WrittenBy(2, 3)


\* the policy fields create_policy_text reads on their own
TextFieldKeys ==
    {"title", "introduction", "content", "policy_type", "agency",
     "age_range", "education", "employment_status", "support_scale"}

\* both dates of the application period are non-empty
HasPeriod(policy) ==
    /\ Get(policy, "apply_start", EmptyText) # EmptyText
    /\ Get(policy, "apply_end", EmptyText) # EmptyText

\* the policy has at least one non-empty text field
HasText(policy) ==
    \/ \E key \in TextFieldKeys : Get(policy, key, EmptyText) # EmptyText
    \/ HasPeriod(policy)

\* the documents the latest vectorize_policies call added to the store
Added == SubSeq(vectorstore_dir, last.before + 1, Len(vectorstore_dir))

\* C30: vectorize_policies indexes exactly the policies with at least one
\* non-empty text field, once each and in input order, and skips the
\* others; the application period is in a text only when both apply_start
\* and apply_end are non-empty.
C30_IndexesPoliciesWithText ==
    last.op = "vectorized"
    => LET kept == SelectSeq(last.policies, HasText)
       IN /\ Len(Added) = Len(kept)
          /\ \A j \in DOMAIN kept :
                /\ Added[j].metadata["policy_id"] = kept[j].plcyBizId
                /\ ~IsBlank(Added[j].document)
                /\ Contains(Added[j].document, <<"apply period: ">>)
                      = HasPeriod(kept[j])
          /\ \A i, j \in DOMAIN vectorstore_dir :
                i # j => vectorstore_dir[i].id # vectorstore_dir[j].id

\* of two policies the first, with a start date and nothing else, was
\* skipped and the second, with both dates and nothing else, was indexed
C30_Witness ==
    /\ last.op = "vectorized"
    /\ Len(last.policies) = 2
    /\ last.policies[1] = LoadedPolicy("start")
    /\ last.policies[2] = LoadedPolicy("period")
    /\ last.before > 0
    /\ Len(Added) = 1
    /\ Added[1].metadata["policy_id"] = <<"R", "period">>

==========================================================================
